---- MODULE Spec2Model ----
(***************************************************************************)
(* Juke shared-memory bridge: the audio backend (PCM ring, one producer,   *)
(* one consumer) and the display backend (resizable region with header,    *)
(* cursor slot, input ring and pixels), each with its fd-passing           *)
(* handshake over a UNIX socket.                                           *)
(*                                                                         *)
(* Source: src/unnamed/part_000 (audio backend lines 1-368, display        *)
(* backend lines 370-929).                                                 *)
(***************************************************************************)
EXTENDS Integers, Naturals, Sequences, FiniteSets, TLC

(***************************************************************************)
(* Bounds of the model.  The ring of 8192 frames and the 32-bit indices    *)
(* are scaled down: the ring holds 2^RingBits frames and an index has      *)
(* RingBits + IdxExtraBits bits, so that index wrap-around is reached.     *)
(***************************************************************************)
RingBits == 2

IdxExtraBits == 1

MaxLen == 8

MaxLog == 2

\* the input ring of 256 events is scaled to 2^InputRingBits events
InputRingBits == 1

\* the 64x64 cursor slot is scaled to MaxCursor x MaxCursor pixels
MaxCursor == 2

\* frame_counter and cursor_version are followed up to this value
MaxCount == 1

\* the probed refresh intervals (ms) run up to this value
MaxProbe == 101

\* the Linux probe opens at most this many cards
MaxCards == 2

\* and reads at most this many CRTCs of a card
MaxCrtcs == 2

VARIABLES
    aud,    \* JukeAudioState
    ashm,   \* the audio region: JukeAudioHeader and the sample ring
    hw,     \* JukeVoiceOut: state pointer and hw.info.bytes_per_frame
    wr,     \* juke_write in progress: its locals, and its last return value
    aenv,   \* audio channel environment: socket, peer, memfd allocator
    dpy,    \* JukeShmemState
    dshm,   \* the display region: header, cursor slot, input ring, pixels
    denv,   \* display channel environment: socket, peer, memfd allocator
    fb,     \* generation of the guest's drawing into the current surface
    sink,   \* input API calls made by the most recent display callback
    cb      \* the display callback in progress: its position and arguments

avars == <<aud, ashm, hw, wr, aenv>>

dvars == <<dpy, dshm, denv, fb, sink, cb>>

vars == <<aud, ashm, hw, wr, aenv, dpy, dshm, denv, fb, sink, cb>>

----------------------------------------------------------------------------
(* Integer helpers *)

Min(a, b) == IF a < b THEN a ELSE b

RECURSIVE Pow2(_)
Pow2(n) == IF n = 0 THEN 1 ELSE 2 * Pow2(n - 1)

\* C's bitwise and on unsigned values
RECURSIVE BitAnd(_, _)
BitAnd(a, b) ==
    IF a = 0 \/ b = 0 THEN 0
    ELSE (a % 2) * (b % 2) + 2 * BitAnd(a \div 2, b \div 2)

\* modulus of the (scaled) uint32_t index arithmetic of the audio header
AU32 == Pow2(RingBits + IdxExtraBits)

AAdd32(a, b) == (a + b) % AU32

ASub32(a, b) == (a - b + AU32) % AU32

----------------------------------------------------------------------------
(* Audio backend: constants and types *)

JUKE_AUDIO_MAGIC == 1146437962

JUKE_AUDIO_VERSION == 2

JUKE_AUDIO_RING_FRAMES == Pow2(RingBits)

JUKE_AUDIO_FMT_S16LE == 1

JUKE_AUDIO_FMT_F32LE == 2

SizeofJukeAudioHeader == 64

\* struct audsettings values the audio framework passes to init_out
AudSettings ==
    { [freq |-> 44100, nchannels |-> 1, fmt |-> "AUDIO_FORMAT_S16"],
      [freq |-> 48000, nchannels |-> 2, fmt |-> "AUDIO_FORMAT_F32"] }

\* Volume values the mixer passes to volume_out
Volumes ==
    { [mute |-> TRUE,  channels |-> 2, vol |-> <<128, 64>>],
      [mute |-> FALSE, channels |-> 1, vol |-> <<64, 0>>] }

\* lengths (bytes) the mixer passes to write
Lens == {0, 2, MaxLen}

\* audio_pcm_init_info: hw->info.bytes_per_frame for the settings
audio_pcm_init_info(as) ==
    as.nchannels * (IF as.fmt = "AUDIO_FORMAT_F32" THEN 4 ELSE 2)

\* audio_rate_get_bytes: the byte counts the rate controller may report for
\* a request of len bytes: nothing (no time has passed) up to all whole
\* frames of the request
audio_rate_get_bytes(len, bytes_per_frame) ==
    { 0, (len \div bytes_per_frame) * bytes_per_frame }

\* a freshly mapped memfd region is zero-filled
ZeroAudioRegion ==
    [ magic |-> 0, version |-> 0, sample_rate |-> 0, channels |-> 0,
      format |-> 0, ring_frames |-> 0, write_idx |-> 0, read_idx |-> 0,
      enabled |-> 0, muted |-> 0, volume_left |-> 0, volume_right |-> 0,
      samples |-> [k \in 0..(JUKE_AUDIO_RING_FRAMES - 1) |-> 0] ]

\* the frame the mixer hands over for ring index idx (0 is an unwritten slot)
FrameTag(idx) == idx + 1

----------------------------------------------------------------------------
(* Socket and allocator environment, shared shape for both channels.       *)
(* W is a pair [s |-> backend state, e |-> environment].                   *)

\* sendmsg(client_fd, msg with SCM_RIGHTS fd): succeeds iff the peer still
\* holds the connection open; the peer then owns a duplicate of fd
sendmsg(e, fd) ==
    [ ok |-> e.peer_open,
      e  |-> [e EXCEPT !.sendmsgs = Min(@ + 1, MaxLog),
                       !.rcvd = IF e.peer_open /\ Len(@) < MaxLog
                                THEN Append(@, fd) ELSE @] ]

\* qemu_memfd_alloc: a fresh region and fd, or NULL with *fd untouched
qemu_memfd_alloc(e) == [e EXCEPT !.nalloc = @ + 1]

----------------------------------------------------------------------------
(* Audio backend: handshake *)

juke_audio_send_fd_nosentcheck(W) ==
    IF W.s.client_fd < 0 \/ W.s.shmem_fd < 0 THEN W
    ELSE LET r == sendmsg(W.e, W.s.shmem_fd) IN
         IF r.ok THEN [s |-> [W.s EXCEPT !.fd_sent = TRUE], e |-> r.e]
         ELSE [s |-> W.s, e |-> r.e]

juke_audio_send_fd(W) ==
    IF W.s.client_fd < 0 \/ W.s.shmem_fd < 0 \/ W.s.fd_sent THEN W
    ELSE LET r == sendmsg(W.e, W.s.shmem_fd) IN
         IF r.ok THEN [s |-> [W.s EXCEPT !.fd_sent = TRUE], e |-> r.e]
         ELSE [s |-> W.s, e |-> r.e]

juke_audio_connect(W) ==
    IF ~W.s.socket_path \/ W.s.client_fd >= 0 THEN W
    ELSE IF ~W.e.reachable THEN W      \* socket() or connect() failed
    ELSE LET W1 == [ s |-> [W.s EXCEPT !.client_fd = 1, !.fd_sent = FALSE],
                     e |-> [W.e EXCEPT !.peer_open = TRUE] ]
         IN IF W1.s.shmem_fd >= 0 THEN juke_audio_send_fd(W1) ELSE W1

juke_write_handshake_skipped(W) == W

\* lines 156-164 of juke_write: lazy connect, then send
juke_write_handshake(W) ==
    LET W1 == IF W.s.client_fd < 0 THEN juke_audio_connect(W) ELSE W
    IN IF W1.s.client_fd >= 0 /\ ~W1.s.fd_sent
       THEN juke_audio_send_fd(W1) ELSE W1

----------------------------------------------------------------------------
(* Audio backend: ring arithmetic of juke_write *)

used_frames(ring_frames, write_idx, read_idx) ==
    BitAnd(ASub32(write_idx, read_idx), ring_frames - 1)

free_frames_nogap(ring_frames, write_idx, read_idx) ==
    ring_frames - used_frames(ring_frames, write_idx, read_idx)

free_frames(ring_frames, write_idx, read_idx) ==
    ring_frames - used_frames(ring_frames, write_idx, read_idx) - 1

CopySlot_unsplit(ring_frames, write_idx, frame_size, j) ==
    BitAnd(write_idx, ring_frames - 1) + j

\* ring slot that frame j of the buffer is copied to by the memcpy calls
CopySlot(ring_frames, write_idx, frame_size, j) ==
    LET ring_bytes   == ring_frames * frame_size
        write_offset == BitAnd(write_idx, ring_frames - 1) * frame_size
        first_chunk  == ring_bytes - write_offset
    IN IF j * frame_size < first_chunk
       THEN (write_offset + j * frame_size) \div frame_size
       ELSE (j * frame_size - first_chunk) \div frame_size

\* lines 195-209: the byte ranges <<from, to>> (to excluded, offsets from the
\* start of the region) that the memcpy calls write
CopyRanges(ring_frames, write_idx, frame_size, frames_to_write) ==
    LET ring_data      == SizeofJukeAudioHeader
        ring_bytes     == ring_frames * frame_size
        write_offset   == BitAnd(write_idx, ring_frames - 1) * frame_size
        bytes_to_write == frames_to_write * frame_size
        first_chunk    == ring_bytes - write_offset
    IN IF first_chunk >= bytes_to_write
       THEN { <<ring_data + write_offset,
                ring_data + write_offset + bytes_to_write>> }
       ELSE { <<ring_data + write_offset,
                ring_data + write_offset + first_chunk>>,
              <<ring_data, ring_data + bytes_to_write - first_chunk>> }

WrIdle == [ pc |-> "idle", len |-> 0, write_idx |-> 0, free_frames |-> 0,
            frames_to_write |-> 0, frame_size |-> 0, ret |-> -1,
            copied |-> 0 ]

\* juke_write returns v having copied n frames
WrReturn(len, frame_size, free, v, n) ==
    [ pc |-> "ret", len |-> len, write_idx |-> 0, free_frames |-> free,
      frames_to_write |-> 0, frame_size |-> frame_size, ret |-> v,
      copied |-> n ]

----------------------------------------------------------------------------
(* Initial state: juke_audio_init *)

AudioInit ==
    /\ aud = [ shmem |-> 0, shmem_size |-> 0, shmem_fd |-> -1,
               socket_path |-> TRUE, client_fd |-> -1, fd_sent |-> FALSE ]
    /\ ashm = ZeroAudioRegion
    /\ hw = [ state |-> FALSE, bytes_per_frame |-> 0 ]
    /\ wr = WrIdle
    /\ aenv \in { [ reachable |-> b, peer_open |-> FALSE, rcvd |-> <<>>,
                    sendmsgs |-> 0, nalloc |-> 0 ] : b \in BOOLEAN }

----------------------------------------------------------------------------
(* Audio backend: operations *)

juke_init_out_realloc(as, ok) ==
    LET bpf  == audio_pcm_init_info(as)
        size == SizeofJukeAudioHeader + JUKE_AUDIO_RING_FRAMES * bpf
    IN
    /\ wr.pc = "idle"
    /\ hw' = [ state |-> TRUE, bytes_per_frame |-> bpf ]
    /\ wr' = wr
    /\ IF ok
       THEN LET e1 == qemu_memfd_alloc(aenv)
                s1 == [aud EXCEPT !.shmem_size = size, !.shmem = e1.nalloc,
                                  !.shmem_fd = e1.nalloc]
                W1 == juke_audio_connect([s |-> s1, e |-> e1])
                W2 == IF W1.s.client_fd >= 0 /\ ~W1.s.fd_sent
                      THEN juke_audio_send_fd(W1) ELSE W1
            IN /\ ashm' = [ZeroAudioRegion EXCEPT
                              !.magic = JUKE_AUDIO_MAGIC,
                              !.version = JUKE_AUDIO_VERSION,
                              !.sample_rate = as.freq,
                              !.channels = as.nchannels,
                              !.format = IF as.fmt = "AUDIO_FORMAT_F32"
                                         THEN JUKE_AUDIO_FMT_F32LE
                                         ELSE JUKE_AUDIO_FMT_S16LE,
                              !.ring_frames = JUKE_AUDIO_RING_FRAMES,
                              !.volume_left = 255,
                              !.volume_right = 255]
               /\ aud' = W2.s
               /\ aenv' = W2.e
       ELSE /\ aud' = [aud EXCEPT !.shmem_size = size]
            /\ UNCHANGED <<ashm, aenv>>

juke_init_out(as, ok) ==
    LET bpf  == audio_pcm_init_info(as)
        size == SizeofJukeAudioHeader + JUKE_AUDIO_RING_FRAMES * bpf
    IN
    /\ wr.pc = "idle"
    /\ hw' = [ state |-> TRUE, bytes_per_frame |-> bpf ]
    /\ wr' = wr
    /\ IF aud.shmem = 0
       THEN IF ok
            THEN LET e1 == qemu_memfd_alloc(aenv)
                     s1 == [aud EXCEPT !.shmem_size = size,
                                       !.shmem = e1.nalloc,
                                       !.shmem_fd = e1.nalloc]
                     W1 == juke_audio_connect([s |-> s1, e |-> e1])
                     W2 == IF W1.s.client_fd >= 0 /\ ~W1.s.fd_sent
                           THEN juke_audio_send_fd(W1) ELSE W1
                 IN /\ ashm' = [ZeroAudioRegion EXCEPT
                                   !.magic = JUKE_AUDIO_MAGIC,
                                   !.version = JUKE_AUDIO_VERSION,
                                   !.sample_rate = as.freq,
                                   !.channels = as.nchannels,
                                   !.format = IF as.fmt = "AUDIO_FORMAT_F32"
                                              THEN JUKE_AUDIO_FMT_F32LE
                                              ELSE JUKE_AUDIO_FMT_S16LE,
                                   !.ring_frames = JUKE_AUDIO_RING_FRAMES,
                                   !.write_idx = 0,
                                   !.read_idx = 0,
                                   !.enabled = 0,
                                   !.muted = 0,
                                   !.volume_left = 255,
                                   !.volume_right = 255]
                    /\ aud' = W2.s
                    /\ aenv' = W2.e
            ELSE /\ aud' = [aud EXCEPT !.shmem_size = size]
                 /\ UNCHANGED <<ashm, aenv>>
       ELSE UNCHANGED <<aud, ashm, aenv>>

write_clamp_none(frames, free) == frames

\* lines 185-187: frames_to_write is clamped to the free frames
write_clamp(frames, free) == Min(frames, free)

\* juke_write, lines 146-193: guards, handshake, index loads, clamping
juke_write_begin(len, est) ==
    /\ wr.pc = "idle"
    /\ hw.state
    /\ IF aud.shmem = 0
       THEN /\ wr' = WrReturn(len, hw.bytes_per_frame, 0, est, 0)
            /\ hw' = hw
            /\ UNCHANGED <<aud, ashm, aenv>>
       ELSE LET W == juke_write_handshake([s |-> aud, e |-> aenv])
                ring_frames == ashm.ring_frames
                write_idx == ashm.write_idx
                read_idx == ashm.read_idx
                free == free_frames(ring_frames, write_idx, read_idx)
                frame_size == hw.bytes_per_frame
                frames_to_write == write_clamp(len \div frame_size, free)
            IN
            /\ aud' = W.s
            /\ aenv' = W.e
            /\ ashm' = ashm
            /\ IF ashm.enabled = 0
               THEN /\ wr' = WrReturn(len, frame_size, 0, est, 0)
                    /\ hw' = hw
               ELSE IF frames_to_write = 0
               THEN /\ wr' = WrReturn(len, frame_size, free, est, 0)
                    /\ hw' = hw
               ELSE /\ wr' = [ pc |-> "copy", len |-> len,
                               write_idx |-> write_idx,
                               free_frames |-> free,
                               frames_to_write |-> frames_to_write,
                               frame_size |-> frame_size, ret |-> -1,
                               copied |-> 0 ]
                    /\ hw' = hw

\* juke_write, lines 195-209: the memcpy calls
juke_write_copy ==
    /\ wr.pc = "copy"
    /\ ashm' = [ashm EXCEPT !.samples =
          [k \in DOMAIN @ |->
             IF \E j \in 0..(wr.frames_to_write - 1) :
                   CopySlot(ashm.ring_frames, wr.write_idx, wr.frame_size, j) = k
             THEN LET j == CHOOSE j \in 0..(wr.frames_to_write - 1) :
                             CopySlot(ashm.ring_frames, wr.write_idx,
                                      wr.frame_size, j) = k
                  IN FrameTag(AAdd32(wr.write_idx, j))
             ELSE @[k]]]
    /\ wr' = [wr EXCEPT !.pc = "publish", !.copied = wr.frames_to_write]
    /\ UNCHANGED <<aud, hw, aenv>>

\* juke_write, lines 211-214: release-store of write_idx and return
juke_write_publish_len ==
    /\ wr.pc = "publish"
    /\ ashm' = [ashm EXCEPT
                   !.write_idx = AAdd32(wr.write_idx, wr.frames_to_write)]
    /\ wr' = WrReturn(wr.len, wr.frame_size, wr.free_frames,
                      wr.len, wr.copied)
    /\ UNCHANGED <<aud, hw, aenv>>

juke_write_publish_masked ==
    /\ wr.pc = "publish"
    /\ ashm' = [ashm EXCEPT
                   !.write_idx = BitAnd(wr.write_idx + wr.frames_to_write,
                                        ashm.ring_frames - 1)]
    /\ wr' = WrReturn(wr.len, wr.frame_size, wr.free_frames,
                      wr.frames_to_write * wr.frame_size, wr.copied)
    /\ UNCHANGED <<aud, hw, aenv>>

juke_write_publish ==
    /\ wr.pc = "publish"
    /\ ashm' = [ashm EXCEPT
                   !.write_idx = AAdd32(wr.write_idx, wr.frames_to_write)]
    /\ wr' = WrReturn(wr.len, wr.frame_size, wr.free_frames,
                      wr.frames_to_write * wr.frame_size, wr.copied)
    /\ UNCHANGED <<aud, hw, aenv>>

\* the mixer (audio_generic_run_buffer_out) takes the value juke_write returned
juke_write_return ==
    /\ wr.pc = "ret"
    /\ wr' = WrIdle
    /\ UNCHANGED <<aud, ashm, hw, aenv>>

volume_out_right_second(vol) == vol.vol[2]

\* line 292: vol_r (vol.vol[1] is the C vol[0])
volume_out_right(vol) == IF vol.channels > 1 THEN vol.vol[2] ELSE vol.vol[1]

juke_volume_out(vol) ==
    /\ wr.pc = "idle"
    /\ hw.state
    /\ IF aud.shmem = 0
       THEN UNCHANGED ashm
       ELSE ashm' = [ashm EXCEPT
                        !.muted = IF vol.mute THEN 1 ELSE 0,
                        !.volume_left = vol.vol[1],
                        !.volume_right = volume_out_right(vol)]
    /\ UNCHANGED <<aud, hw, wr, aenv>>

\* audio_rate_start restarts the rate controller's clock; what the
\* controller then reports is drawn by AudioWriteBegin, so no state is kept
\* for it.  The header's enabled field is left to the renderer (line 306).
juke_enable_out(enable) ==
    /\ wr.pc = "idle"
    /\ hw.state
    /\ UNCHANGED <<aud, ashm, hw, wr, aenv>>

----------------------------------------------------------------------------
(* Audio channel: the renderer and the socket *)

\* the renderer has mapped the region once it has received its fd
AudioMapped == aud.shmem /= 0 /\ Len(aenv.rcvd) > 0

\* consumer: advances read_idx past k frames of [read_idx, write_idx)
ConsumerAdvance(k) ==
    /\ AudioMapped
    /\ k \in 1..ASub32(ashm.write_idx, ashm.read_idx)
    /\ ashm' = [ashm EXCEPT !.read_idx = AAdd32(@, k)]
    /\ UNCHANGED <<aud, hw, wr, aenv>>

\* the renderer pauses or resumes playback
RendererEnable(v) ==
    /\ AudioMapped
    /\ ashm.enabled /= v
    /\ ashm' = [ashm EXCEPT !.enabled = v]
    /\ UNCHANGED <<aud, hw, wr, aenv>>

AudioSockUp ==
    /\ ~aenv.reachable
    /\ aenv' = [aenv EXCEPT !.reachable = TRUE]
    /\ UNCHANGED <<aud, ashm, hw, wr>>

AudioSockDown ==
    /\ aenv.reachable
    /\ aenv' = [aenv EXCEPT !.reachable = FALSE]
    /\ UNCHANGED <<aud, ashm, hw, wr>>

AudioPeerClose ==
    /\ aenv.peer_open
    /\ aenv' = [aenv EXCEPT !.peer_open = FALSE]
    /\ UNCHANGED <<aud, ashm, hw, wr>>

----------------------------------------------------------------------------
(* Display backend: constants and types *)

JUKE_INPUT_MOUSE_REL == 1

JUKE_INPUT_MOUSE_ABS == 2

JUKE_INPUT_MOUSE_BTN == 3

JUKE_INPUT_KEY == 4

JUKE_INPUT_RING_SIZE == Pow2(InputRingBits)

JUKE_CURSOR_MAX_SIZE == MaxCursor

JUKE_CURSOR_MAX_PIXELS == JUKE_CURSOR_MAX_SIZE * JUKE_CURSOR_MAX_SIZE

JUKE_CURSOR_DATA_SIZE == JUKE_CURSOR_MAX_PIXELS * 4

JUKE_SHMEM_MAGIC == 1162564938

JUKE_SHMEM_VERSION == 3

SizeofJukeShmemHeader == 80

SizeofJukeInputEvent == 12

SizeofJukeInputRing == 16 + JUKE_INPUT_RING_SIZE * SizeofJukeInputEvent

\* modulus of the (scaled) uint32_t indices of the input ring
DU32 == Pow2(InputRingBits + IdxExtraBits)

DAdd32(a, b) == (a + b) % DU32

DSub32(a, b) == (a - b + DU32) % DU32

\* DisplaySurface values the console hands to gfx_switch (0 is NULL)
Surfaces ==
    << [width |-> 2, height |-> 1, stride |-> 4, format |-> "r5g6b5"],
       [width |-> 1, height |-> 2, stride |-> 4, format |-> "x8r8g8b8"] >>

SurfaceIds == DOMAIN Surfaces

\* surface_data: byte i (from 0) of surface id after gen guest drawings
SurfaceByte(id, gen, i) == (id * 32 + gen * 16 + i) % 256

\* QEMUCursor values of the console (0 is no cursor)
Cursors ==
    << [width |-> JUKE_CURSOR_MAX_SIZE + 1, height |-> 1,
        hot_x |-> 1, hot_y |-> 0],
       [width |-> 1, height |-> JUKE_CURSOR_MAX_SIZE + 1,
        hot_x |-> 0, hot_y |-> 1] >>

CursorIds == DOMAIN Cursors

\* con_cursor->data[i] of cursor id
CursorPixel(id, i) == id * 100 + i + 1

\* rectangles the console reports for a surface
Rects(surf) ==
    { [x |-> 0, y |-> 0, w |-> surf.width, h |-> surf.height],
      [x |-> surf.width - 1, y |-> surf.height - 1, w |-> 1, h |-> 1] }

\* mouse_set arguments
MousePos == { [x |-> 3, y |-> -2, on |-> TRUE] }

\* events the renderer queues
InputEvents ==
    { [type |-> JUKE_INPUT_MOUSE_ABS, button |-> 0, pressed |-> 0,
       x |-> 1, y |-> 0],
      [type |-> JUKE_INPUT_KEY, button |-> 0, pressed |-> 1,
       x |-> 42, y |-> 0] }

ZeroEvent == [type |-> 0, button |-> 0, pressed |-> 0, x |-> 0, y |-> 0]

\* a freshly mapped memfd region of size bytes is zero-filled
ZeroDisplayRegion(size) ==
    [ magic |-> 0, version |-> 0, width |-> 0, height |-> 0, stride |-> 0,
      format |-> "0", frame_counter |-> 0,
      dirty_x |-> 0, dirty_y |-> 0, dirty_w |-> 0, dirty_h |-> 0,
      cursor_version |-> 0, cursor_x |-> 0, cursor_y |-> 0,
      cursor_visible |-> 0, cursor_width |-> 0, cursor_height |-> 0,
      cursor_hot_x |-> 0, cursor_hot_y |-> 0,
      cursor_pixels |-> [i \in 0..(JUKE_CURSOR_MAX_PIXELS - 1) |-> 0],
      ring |-> [ write_idx |-> 0, read_idx |-> 0,
                 events |-> [i \in 0..(JUKE_INPUT_RING_SIZE - 1) |-> ZeroEvent] ],
      pixels |-> [i \in 0..(size - SizeofJukeShmemHeader
                                 - JUKE_CURSOR_DATA_SIZE
                                 - SizeofJukeInputRing - 1) |-> 0] ]

\* no region is mapped
Unmapped == ZeroDisplayRegion(0)

\* the input sink after a callback that made no input API call
NoCalls == [calls |-> << >>, synced |-> FALSE]

\* the renderer is not in the middle of reading the dirty rectangle
NoRead == [pc |-> "idle", seen |-> 0, x |-> 0, y |-> 0, w |-> 0, h |-> 0]

\* no display callback is in progress
Idle == [pc |-> "idle", x |-> 0, y |-> 0, w |-> 0, h |-> 0, gen |-> 0]

----------------------------------------------------------------------------
(* Display backend: handshake *)

juke_shmem_send_fd_nosentcheck(W) ==
    IF W.s.client_fd < 0 \/ W.s.shmem_fd < 0 THEN W
    ELSE LET r == sendmsg(W.e, W.s.shmem_fd) IN
         IF r.ok THEN [s |-> [W.s EXCEPT !.fd_sent = TRUE], e |-> r.e]
         ELSE [s |-> W.s, e |-> r.e]

juke_shmem_send_fd_unchecked(W) ==
    IF W.s.client_fd < 0 \/ W.s.shmem_fd < 0 \/ W.s.fd_sent THEN W
    ELSE LET r == sendmsg(W.e, W.s.shmem_fd) IN
         [s |-> [W.s EXCEPT !.fd_sent = TRUE], e |-> r.e]

juke_shmem_send_fd_closing(W) ==
    IF W.s.client_fd < 0 \/ W.s.shmem_fd < 0 \/ W.s.fd_sent THEN W
    ELSE LET r == sendmsg(W.e, W.s.shmem_fd) IN
         IF r.ok THEN [s |-> [W.s EXCEPT !.fd_sent = TRUE], e |-> r.e]
         ELSE [s |-> [W.s EXCEPT !.client_fd = -1], e |-> r.e]

juke_shmem_send_fd(W) ==
    IF W.s.client_fd < 0 \/ W.s.shmem_fd < 0 \/ W.s.fd_sent THEN W
    ELSE LET r == sendmsg(W.e, W.s.shmem_fd) IN
         IF r.ok THEN [s |-> [W.s EXCEPT !.fd_sent = TRUE], e |-> r.e]
         ELSE [s |-> W.s, e |-> r.e]

juke_shmem_connect(W) ==
    IF ~W.s.socket_path THEN W
    ELSE IF ~W.e.reachable THEN W      \* socket() or connect() failed
    ELSE LET W1 == [ s |-> [W.s EXCEPT !.client_fd = 1, !.fd_sent = FALSE],
                     e |-> [W.e EXCEPT !.peer_open = TRUE, !.rcvd = <<>>] ]
         IN IF W1.s.shmem_fd >= 0 THEN juke_shmem_send_fd(W1) ELSE W1

----------------------------------------------------------------------------
(* Initial state of the display channel: juke_shmem_init *)

\* the interval a listener has when registered (line 815)
GUI_REFRESH_INTERVAL_DEFAULT == 30

\* line 886: intervals from this one on are not accepted
RefreshLimitMs == 100

\* line 893: the fallback interval
RefreshFallbackMs == 8

refresh_interval_inclusive(interval_ms) ==
    IF interval_ms > 0 /\ interval_ms <= RefreshLimitMs
    THEN interval_ms ELSE RefreshFallbackMs

\* lines 886-894: the interval handed to update_displaychangelistener
refresh_interval(interval_ms) ==
    IF interval_ms > 0 /\ interval_ms < RefreshLimitMs
    THEN interval_ms ELSE RefreshFallbackMs

\* lines 899-912: the state is built, the socket tried and the listener
\* registered
juke_shmem_init(path, up) ==
    LET s0 == [ surface |-> 0, shmem |-> 0, shmem_size |-> 0,
                shmem_fd |-> -1, socket_path |-> path,
                client_fd |-> -1, fd_sent |-> FALSE,
                crashed |-> FALSE,
                update_interval |-> GUI_REFRESH_INTERVAL_DEFAULT ]
        e0 == [ reachable |-> up, peer_open |-> FALSE, rcvd |-> <<>>,
                sendmsgs |-> 0, nalloc |-> 0, reader |-> NoRead ]
    IN IF path THEN juke_shmem_connect([s |-> s0, e |-> e0])
       ELSE [s |-> s0, e |-> e0]

\* juke_shmem_init has returned; no monitor was found by the probe
\* (interval_ms = 0)
DisplayInit ==
    /\ \E path \in BOOLEAN, up \in BOOLEAN :
         LET W == juke_shmem_init(path, up)
         IN /\ dpy = [W.s EXCEPT !.update_interval = refresh_interval(0)]
            /\ denv = W.e
    /\ dshm = Unmapped
    /\ fb = 0
    /\ sink = NoCalls
    /\ cb = Idle

\* what the probe of lines 822-884 can leave in interval_ms
ProbeResults == (-2)..MaxProbe

\* juke_shmem_init is at line 915: the probe has produced interval_ms
DisplayProbed ==
    /\ \E path \in BOOLEAN, up \in BOOLEAN :
         LET W == juke_shmem_init(path, up)
         IN dpy = W.s /\ denv = W.e
    /\ dshm = Unmapped
    /\ fb = 0
    /\ sink = NoCalls
    /\ \E interval_ms \in ProbeResults :
          cb = [Idle EXCEPT !.pc = "setup_refresh", !.x = interval_ms]

\* drmModeCrtc values the probe can meet: mode_valid and the mode timing.
\* Every product below stays under 2^31, so the uint32_t arithmetic of lines
\* 865-870 does not wrap on them
Modes ==
    << [mode_valid |-> TRUE,  htotal |-> 2200, vtotal |-> 1125, clock |-> 148500],
       [mode_valid |-> TRUE,  htotal |-> 100,  vtotal |-> 100,  clock |-> 1000],
       [mode_valid |-> TRUE,  htotal |-> 1000, vtotal |-> 1000, clock |-> 5000],
       [mode_valid |-> TRUE,  htotal |-> 10,   vtotal |-> 100,  clock |-> 2000],
       [mode_valid |-> TRUE,  htotal |-> 2000, vtotal |-> 1000, clock |-> 1000],
       [mode_valid |-> TRUE,  htotal |-> 0,    vtotal |-> 1125, clock |-> 148500],
       [mode_valid |-> FALSE, htotal |-> 2200, vtotal |-> 1125, clock |-> 148500] >>

\* line 869
refresh_hz(mode) == (mode.clock * 1000) \div (mode.htotal * mode.vtotal)

\* lines 863-875 for one CRTC: the outcomes [crashed, interval_ms].  1000 /
\* refresh_hz with refresh_hz = 0 is an integer division by zero: the process
\* is killed (SIGFPE) or, where the division does not trap, the quotient is
\* 0 and the CRTC is passed over
probe_crtc(interval_ms, mode) ==
    IF ~mode.mode_valid
       \/ ~(mode.htotal > 0 /\ mode.vtotal > 0 /\ mode.clock > 0)
    THEN { [crashed |-> FALSE, interval_ms |-> interval_ms] }
    ELSE IF refresh_hz(mode) = 0
    THEN { [crashed |-> TRUE,  interval_ms |-> interval_ms],
           [crashed |-> FALSE, interval_ms |-> interval_ms] }
    ELSE LET this_interval == 1000 \div refresh_hz(mode)
         IN { [crashed |-> FALSE,
               interval_ms |->
                  IF this_interval > 0
                     /\ (interval_ms = 0 \/ this_interval < interval_ms)
                  THEN this_interval ELSE interval_ms] }

\* juke_shmem_init is at line 915 and the probe starts: interval_ms = 0
\* (line 822).  In cb, x is interval_ms, w the number of cards opened, y the
\* number of CRTCs read on the current card and gen the modes they had
DisplayProbing ==
    /\ \E path \in BOOLEAN, up \in BOOLEAN :
         LET W == juke_shmem_init(path, up)
         IN dpy = W.s /\ denv = W.e
    /\ dshm = Unmapped
    /\ fb = 0
    /\ sink = NoCalls
    /\ cb = [Idle EXCEPT !.pc = "readdir", !.gen = << >>]

\* lines 839-859 and 882-884: the directory loop opens the next card, or
\* the directory has no further card (or could not be opened)
juke_shmem_probe_readdir ==
    /\ cb.pc = "readdir"
    /\ \/ /\ cb.w < MaxCards
          /\ cb' = [cb EXCEPT !.pc = "crtcs", !.w = @ + 1, !.y = 0,
                               !.gen = << >>]
       \/ cb' = [cb EXCEPT !.pc = "setup_refresh"]
    /\ UNCHANGED <<dpy, dshm, denv, fb, sink>>

\* lines 861-876: one CRTC of the card
juke_shmem_probe_crtc ==
    /\ cb.pc = "crtcs"
    /\ cb.y < MaxCrtcs
    /\ \E k \in DOMAIN Modes : \E r \in probe_crtc(cb.x, Modes[k]) :
          IF r.crashed
          THEN /\ dpy' = [dpy EXCEPT !.crashed = TRUE]
               /\ cb' = [cb EXCEPT !.pc = "killed"]
          ELSE /\ dpy' = dpy
               /\ cb' = [cb EXCEPT !.x = r.interval_ms, !.y = @ + 1,
                                    !.gen = Append(@, k)]
    /\ UNCHANGED <<dshm, denv, fb, sink>>

\* lines 877-882: the card has no further CRTC; the directory loop ends
\* once an interval was found
juke_shmem_probe_card_done ==
    /\ cb.pc = "crtcs"
    /\ cb' = [cb EXCEPT !.pc = IF cb.x > 0 THEN "setup_refresh"
                                ELSE "readdir"]
    /\ UNCHANGED <<dpy, dshm, denv, fb, sink>>

\* lines 886-894 of juke_shmem_setup_refresh
juke_shmem_setup_refresh ==
    /\ cb.pc = "setup_refresh"
    /\ dpy' = [dpy EXCEPT !.update_interval = refresh_interval(cb.x)]
    /\ cb' = Idle
    /\ UNCHANGED <<dshm, denv, fb, sink>>

----------------------------------------------------------------------------
(* Display backend: operations *)

Needed(surf) ==
    SizeofJukeShmemHeader + JUKE_CURSOR_DATA_SIZE + SizeofJukeInputRing
        + surf.stride * surf.height

\* the header, cursor state, ring indices and pixels gfx_switch writes
InitRegion(m, id, surf) ==
    [m EXCEPT
        !.magic = JUKE_SHMEM_MAGIC,
        !.version = JUKE_SHMEM_VERSION,
        !.width = surf.width,
        !.height = surf.height,
        !.stride = surf.stride,
        !.format = surf.format,
        !.frame_counter = 0,
        !.dirty_x = 0,
        !.dirty_y = 0,
        !.dirty_w = surf.width,
        !.dirty_h = surf.height,
        !.cursor_version = 0,
        !.cursor_x = 0,
        !.cursor_y = 0,
        !.cursor_visible = 0,
        !.cursor_width = 0,
        !.cursor_height = 0,
        !.cursor_hot_x = 0,
        !.cursor_hot_y = 0,
        !.ring.write_idx = 0,
        !.ring.read_idx = 0,
        !.pixels = [i \in DOMAIN @ |->
                       IF i < surf.stride * surf.height
                       THEN SurfaceByte(id, fb, i) ELSE @[i]]]

gfx_switch_grows_onchange(needed, shmem_size) == needed /= shmem_size

\* line 591: the region is reallocated only to grow
gfx_switch_grows(needed, shmem_size) == needed > shmem_size

gfx_switch_free_keepsent(s) ==
    IF s.shmem /= 0
    THEN [s EXCEPT !.shmem = 0, !.shmem_fd = -1]
    ELSE s

\* lines 592-597: the old region is freed and the handshake re-armed
gfx_switch_free(s) ==
    IF s.shmem /= 0
    THEN [s EXCEPT !.shmem = 0, !.shmem_fd = -1, !.fd_sent = FALSE]
    ELSE s

juke_shmem_gfx_switch(new_surface, ok) ==
    /\ ~dpy.crashed
    /\ cb = Idle
    /\ sink' = NoCalls
    /\ UNCHANGED <<fb, cb>>
    /\ IF new_surface = 0
       THEN /\ dpy' = [dpy EXCEPT !.surface = 0]
            /\ UNCHANGED <<dshm, denv>>
       ELSE
       LET surf   == Surfaces[new_surface]
           needed == Needed(surf)
           s0     == [dpy EXCEPT !.surface = new_surface]
       IN
       IF gfx_switch_grows(needed, s0.shmem_size)
       THEN LET s1 == gfx_switch_free(s0)
                s2 == [s1 EXCEPT !.shmem_size = needed]
            IN IF ok
               THEN LET e1 == qemu_memfd_alloc(denv)
                        s3 == [s2 EXCEPT !.shmem = e1.nalloc,
                                         !.shmem_fd = e1.nalloc]
                        W  == IF s3.client_fd >= 0 /\ ~s3.fd_sent
                              THEN juke_shmem_send_fd([s |-> s3, e |-> e1])
                              ELSE [s |-> s3, e |-> e1]
                    IN /\ dshm' = InitRegion(ZeroDisplayRegion(needed),
                                             new_surface, surf)
                       /\ dpy' = W.s
                       /\ denv' = W.e
               ELSE /\ dpy' = s2
                    /\ dshm' = Unmapped
                    /\ denv' = denv
       ELSE IF s0.shmem = 0
       THEN \* s->shmem->magic = ... through a NULL pointer: SIGSEGV
            /\ dpy' = [s0 EXCEPT !.crashed = TRUE]
            /\ UNCHANGED <<dshm, denv>>
       ELSE LET W == IF s0.client_fd >= 0 /\ ~s0.fd_sent
                     THEN juke_shmem_send_fd([s |-> s0, e |-> denv])
                     ELSE [s |-> s0, e |-> denv]
            IN /\ dshm' = InitRegion(dshm, new_surface, surf)
               /\ dpy' = W.s
               /\ denv' = W.e

gfx_update_ready_noshmemcheck(s) == s.surface /= 0

\* lines 548-550: gfx_update needs a region and a surface
gfx_update_ready(s) == s.shmem /= 0 /\ s.surface /= 0

\* lines 553-561: rows [y, y + h) of the surface (as drawn gen times) are
\* copied to the same offsets of the pixel buffer
gfx_update_rows(m, surface, gen, y, h) ==
    LET stride == Surfaces[surface].stride IN
    [m EXCEPT
       !.pixels = [i \in DOMAIN @ |->
                     IF \E row \in y..(y + h - 1) :
                           i \in (row * stride)..(row * stride + stride - 1)
                     THEN SurfaceByte(surface, gen, i) ELSE @[i]]]

gfx_update_dirty_skipped(m, x, y, w, h) == m

\* lines 564-567
gfx_update_dirty(m, x, y, w, h) ==
    [m EXCEPT !.dirty_x = x, !.dirty_y = y, !.dirty_w = w, !.dirty_h = h]

\* line 569
gfx_update_bump(m) == [m EXCEPT !.frame_counter = @ + 1]

\* the callback from entry to return
juke_shmem_gfx_update(x, y, w, h) ==
    /\ ~dpy.crashed
    /\ cb = Idle
    /\ IF ~gfx_update_ready(dpy)
       THEN UNCHANGED dshm
       ELSE dshm' = gfx_update_bump(
                       gfx_update_dirty(
                          gfx_update_rows(dshm, dpy.surface, fb, y, h),
                          x, y, w, h))
    /\ sink' = NoCalls
    /\ UNCHANGED <<dpy, denv, fb, cb>>

\* the callback in the steps another thread can observe: the row copies,
juke_shmem_gfx_update_copy(x, y, w, h) ==
    /\ ~dpy.crashed
    /\ cb = Idle
    /\ IF ~gfx_update_ready(dpy)
       THEN UNCHANGED <<dshm, cb>>
       ELSE /\ dshm' = gfx_update_rows(dshm, dpy.surface, fb, y, h)
            /\ cb' = [pc |-> "update_dirty", x |-> x, y |-> y, w |-> w,
                      h |-> h, gen |-> fb]
    /\ sink' = NoCalls
    /\ UNCHANGED <<dpy, denv, fb>>

\* the stores of the dirty rectangle,
juke_shmem_gfx_update_dirty ==
    /\ cb.pc = "update_dirty"
    /\ dshm' = gfx_update_dirty(dshm, cb.x, cb.y, cb.w, cb.h)
    /\ cb' = [cb EXCEPT !.pc = "update_bump"]
    /\ UNCHANGED <<dpy, denv, fb, sink>>

\* and the release increment of frame_counter
juke_shmem_gfx_update_bump ==
    /\ cb.pc = "update_bump"
    /\ dshm' = gfx_update_bump(dshm)
    /\ cb' = Idle
    /\ UNCHANGED <<dpy, denv, fb, sink>>

\* the input API calls one event is translated to (lines 516-532)
Dispatch(ev, hdr) ==
    IF ev.type = JUKE_INPUT_MOUSE_REL
    THEN << <<"rel", "X", ev.x>>, <<"rel", "Y", ev.y>> >>
    ELSE IF ev.type = JUKE_INPUT_MOUSE_ABS
    THEN << <<"abs", "X", ev.x, hdr.width>>, <<"abs", "Y", ev.y, hdr.height>> >>
    ELSE IF ev.type = JUKE_INPUT_MOUSE_BTN
    THEN << <<"btn", ev.button, ev.pressed>> >>
    ELSE IF ev.type = JUKE_INPUT_KEY
    THEN << <<"key", ev.x, ev.pressed>> >>
    ELSE << >>

\* the drain loop: calls made for the events at [read_idx, write_idx)
RECURSIVE DrainCalls(_, _, _)
DrainCalls(m, read_idx, write_idx) ==
    IF read_idx = write_idx THEN << >>
    ELSE Dispatch(m.ring.events[read_idx % JUKE_INPUT_RING_SIZE], m)
         \o DrainCalls(m, DAdd32(read_idx, 1), write_idx)

\* P is [m |-> region, k |-> input sink]
juke_shmem_process_input(P) ==
    LET write_idx == P.m.ring.write_idx
        read_idx  == P.m.ring.read_idx
        calls     == DrainCalls(P.m, read_idx, write_idx)
    IN IF write_idx /= read_idx
       THEN [ m |-> [P.m EXCEPT !.ring.read_idx = write_idx],
              k |-> [calls |-> calls, synced |-> TRUE] ]
       ELSE [ m |-> P.m, k |-> [calls |-> calls, synced |-> FALSE] ]

\* graphic_hw_update (line 666) lets the device report updates and surface
\* changes: these are the gfx_update and gfx_switch steps that follow
juke_shmem_refresh ==
    /\ ~dpy.crashed
    /\ cb = Idle
    /\ LET W0 == [s |-> dpy, e |-> denv]
           W1 == IF W0.s.client_fd < 0 /\ W0.s.socket_path
                 THEN juke_shmem_connect(W0) ELSE W0
           W2 == IF W1.s.client_fd >= 0 /\ W1.s.shmem_fd >= 0 /\ ~W1.s.fd_sent
                 THEN juke_shmem_send_fd(W1) ELSE W1
           P0 == [m |-> dshm, k |-> NoCalls]
           P1 == IF W2.s.shmem /= 0 THEN juke_shmem_process_input(P0) ELSE P0
       IN /\ dpy' = W2.s
          /\ denv' = W2.e
          /\ dshm' = P1.m
          /\ sink' = P1.k
    /\ UNCHANGED <<fb, cb>>

cursor_define_clamp_none(a, b) == a

\* lines 691-692: MIN(con_cursor->width, JUKE_CURSOR_MAX_SIZE)
cursor_define_clamp(a, b) == Min(a, b)

cursor_define_write_packed(m, con_cursor) ==
    IF con_cursor = 0
    THEN [m EXCEPT !.cursor_width = 0, !.cursor_height = 0]
    ELSE LET c == Cursors[con_cursor]
             w == cursor_define_clamp(c.width, JUKE_CURSOR_MAX_SIZE)
             h == cursor_define_clamp(c.height, JUKE_CURSOR_MAX_SIZE)
         IN [m EXCEPT
               !.cursor_width = w,
               !.cursor_height = h,
               !.cursor_hot_x = c.hot_x,
               !.cursor_hot_y = c.hot_y,
               !.cursor_pixels = [i \in DOMAIN @ |->
                   IF i < h * w
                   THEN CursorPixel(con_cursor, (i \div w) * c.width + (i % w))
                   ELSE @[i]]]

\* lines 681-685 and 691-706: the metadata and the pixels of the console's
\* cursor (0 is no cursor)
cursor_define_write(m, con_cursor) ==
    IF con_cursor = 0
    THEN [m EXCEPT !.cursor_width = 0, !.cursor_height = 0]
    ELSE LET c == Cursors[con_cursor]
             w == cursor_define_clamp(c.width, JUKE_CURSOR_MAX_SIZE)
             h == cursor_define_clamp(c.height, JUKE_CURSOR_MAX_SIZE)
         IN [m EXCEPT
               !.cursor_width = w,
               !.cursor_height = h,
               !.cursor_hot_x = c.hot_x,
               !.cursor_hot_y = c.hot_y,
               \* row y is copied to cells [y * MAX, y * MAX + w) from
               \* data[y * width ...]; a later row's memcpy overwrites
               !.cursor_pixels = [i \in DOMAIN @ |->
                   LET rows == { y \in 0..(h - 1) :
                                   /\ y * JUKE_CURSOR_MAX_SIZE <= i
                                   /\ i < y * JUKE_CURSOR_MAX_SIZE + w }
                   IN IF rows /= {}
                      THEN LET y == CHOOSE y \in rows : \A z \in rows : z <= y
                           IN CursorPixel(con_cursor,
                                 y * c.width + (i - y * JUKE_CURSOR_MAX_SIZE))
                      ELSE @[i]]]

\* lines 686 and 709
cursor_define_bump(m) == [m EXCEPT !.cursor_version = @ + 1]

\* the callback from entry to return
juke_shmem_cursor_define(con_cursor) ==
    /\ ~dpy.crashed
    /\ cb = Idle
    /\ IF dpy.shmem = 0
       THEN UNCHANGED dshm
       ELSE dshm' = cursor_define_bump(cursor_define_write(dshm, con_cursor))
    /\ sink' = NoCalls
    /\ UNCHANGED <<dpy, denv, fb, cb>>

\* the callback in the steps another thread can observe: the stores of the
\* metadata and the pixels,
juke_shmem_cursor_define_write(con_cursor) ==
    /\ ~dpy.crashed
    /\ cb = Idle
    /\ IF dpy.shmem = 0
       THEN UNCHANGED <<dshm, cb>>
       ELSE /\ dshm' = cursor_define_write(dshm, con_cursor)
            /\ cb' = [Idle EXCEPT !.pc = "cursor_bump", !.x = con_cursor]
    /\ sink' = NoCalls
    /\ UNCHANGED <<dpy, denv, fb>>

\* and the release increment of cursor_version
juke_shmem_cursor_define_bump ==
    /\ cb.pc = "cursor_bump"
    /\ dshm' = cursor_define_bump(dshm)
    /\ cb' = Idle
    /\ UNCHANGED <<dpy, denv, fb, sink>>

juke_shmem_mouse_set(x, y, on) ==
    /\ ~dpy.crashed
    /\ cb = Idle
    /\ IF dpy.shmem = 0
       THEN UNCHANGED dshm
       ELSE dshm' = [dshm EXCEPT !.cursor_x = x, !.cursor_y = y,
                                 !.cursor_visible = IF on THEN 1 ELSE 0]
    /\ sink' = NoCalls
    /\ UNCHANGED <<dpy, denv, fb, cb>>

----------------------------------------------------------------------------
(* Display backend of src/ui/juke-shmem.c: the same listener without cursor
   and input ring.  Its send_fd, connect, init and gfx_update are the code
   modelled above, line for line; gfx_switch and refresh differ. *)

\* JUKE_SHMEM_VERSION of src/ui/juke-shmem.c
UI_JUKE_SHMEM_VERSION == 1

\* sizeof(JukeShmemHeader) of src/ui/juke-shmem.c: pixels follow the header
UiSizeofJukeShmemHeader == 48

UiNeeded(surf) == UiSizeofJukeShmemHeader + surf.stride * surf.height

\* a freshly mapped region of size bytes in this layout
UiZeroRegion(size) ==
    [Unmapped EXCEPT
        !.pixels = [i \in 0..(size - UiSizeofJukeShmemHeader - 1) |-> 0]]

\* the header and pixels gfx_switch writes
UiInitRegion(m, id, surf) ==
    [m EXCEPT
        !.magic = JUKE_SHMEM_MAGIC,
        !.version = UI_JUKE_SHMEM_VERSION,
        !.width = surf.width,
        !.height = surf.height,
        !.stride = surf.stride,
        !.format = surf.format,
        !.frame_counter = 0,
        !.dirty_x = 0,
        !.dirty_y = 0,
        !.dirty_w = surf.width,
        !.dirty_h = surf.height,
        !.pixels = [i \in DOMAIN @ |->
                       IF i < surf.stride * surf.height
                       THEN SurfaceByte(id, fb, i) ELSE @[i]]]

ui_juke_shmem_gfx_switch(new_surface, ok) ==
    /\ ~dpy.crashed
    /\ cb = Idle
    /\ sink' = NoCalls
    /\ UNCHANGED <<fb, cb>>
    /\ IF new_surface = 0
       THEN /\ dpy' = [dpy EXCEPT !.surface = 0]
            /\ UNCHANGED <<dshm, denv>>
       ELSE
       LET surf   == Surfaces[new_surface]
           needed == UiNeeded(surf)
           s0     == [dpy EXCEPT !.surface = new_surface]
       IN
       IF needed > s0.shmem_size
       THEN LET s1 == gfx_switch_free(s0)
                s2 == [s1 EXCEPT !.shmem_size = needed]
            IN IF ok
               THEN LET e1 == qemu_memfd_alloc(denv)
                        s3 == [s2 EXCEPT !.shmem = e1.nalloc,
                                         !.shmem_fd = e1.nalloc]
                        W  == IF s3.client_fd >= 0 /\ ~s3.fd_sent
                              THEN juke_shmem_send_fd([s |-> s3, e |-> e1])
                              ELSE [s |-> s3, e |-> e1]
                    IN /\ dshm' = UiInitRegion(UiZeroRegion(needed),
                                               new_surface, surf)
                       /\ dpy' = W.s
                       /\ denv' = W.e
               ELSE /\ dpy' = s2
                    /\ dshm' = Unmapped
                    /\ denv' = denv
       ELSE IF s0.shmem = 0
       THEN \* s->shmem->magic = ... through a NULL pointer: SIGSEGV
            /\ dpy' = [s0 EXCEPT !.crashed = TRUE]
            /\ UNCHANGED <<dshm, denv>>
       ELSE LET W == IF s0.client_fd >= 0 /\ ~s0.fd_sent
                     THEN juke_shmem_send_fd([s |-> s0, e |-> denv])
                     ELSE [s |-> s0, e |-> denv]
            IN /\ dshm' = UiInitRegion(dshm, new_surface, surf)
               /\ dpy' = W.s
               /\ denv' = W.e

ui_juke_shmem_refresh ==
    /\ ~dpy.crashed
    /\ cb = Idle
    /\ LET W0 == [s |-> dpy, e |-> denv]
           W1 == IF W0.s.client_fd < 0 /\ W0.s.socket_path
                 THEN juke_shmem_connect(W0) ELSE W0
           W2 == IF W1.s.client_fd >= 0 /\ W1.s.shmem_fd >= 0 /\ ~W1.s.fd_sent
                 THEN juke_shmem_send_fd(W1) ELSE W1
       IN /\ dpy' = W2.s
          /\ denv' = W2.e
    /\ sink' = NoCalls
    /\ UNCHANGED <<dshm, fb, cb>>

----------------------------------------------------------------------------
(* Display channel: the guest, the renderer and the socket *)

\* the renderer has mapped the current region once it has received its fd
DisplayMapped ==
    /\ dpy.shmem /= 0
    /\ \E i \in DOMAIN denv.rcvd : denv.rcvd[i] = dpy.shmem_fd

\* the guest draws into the current surface
GuestDraw ==
    /\ ~dpy.crashed
    /\ dpy.surface /= 0
    /\ fb' = 1 - fb
    /\ UNCHANGED <<dpy, dshm, denv, sink, cb>>

\* the renderer queues one event and publishes write_idx
RendererInput(ev) ==
    /\ DisplayMapped
    /\ DSub32(dshm.ring.write_idx, dshm.ring.read_idx) < JUKE_INPUT_RING_SIZE
    /\ dshm' = [dshm EXCEPT
                   !.ring.events[dshm.ring.write_idx % JUKE_INPUT_RING_SIZE] = ev,
                   !.ring.write_idx = DAdd32(@, 1)]
    /\ UNCHANGED <<dpy, denv, fb, sink, cb>>

\* the renderer acquire-loads frame_counter and finds it changed since its
\* last load
RendererLoadCounter ==
    /\ DisplayMapped
    /\ denv.reader.pc \in {"idle", "done"}
    /\ dshm.frame_counter /= denv.reader.seen
    /\ denv' = [denv EXCEPT !.reader = [NoRead EXCEPT !.pc = "x",
                                            !.seen = dshm.frame_counter]]
    /\ UNCHANGED <<dpy, dshm, fb, sink, cb>>

\* the renderer's four plain loads of dirty_x, dirty_y, dirty_w, dirty_h, one
\* load a step
RendererReadDirty ==
    /\ DisplayMapped
    /\ denv.reader.pc \in {"x", "y", "w", "h"}
    /\ denv' = [denv EXCEPT !.reader =
                   CASE @.pc = "x" -> [@ EXCEPT !.x = dshm.dirty_x, !.pc = "y"]
                     [] @.pc = "y" -> [@ EXCEPT !.y = dshm.dirty_y, !.pc = "w"]
                     [] @.pc = "w" -> [@ EXCEPT !.w = dshm.dirty_w, !.pc = "h"]
                     [] @.pc = "h" -> [@ EXCEPT !.h = dshm.dirty_h, !.pc = "done"]]
    /\ UNCHANGED <<dpy, dshm, fb, sink, cb>>

DisplaySockUp ==
    /\ ~denv.reachable
    /\ denv' = [denv EXCEPT !.reachable = TRUE]
    /\ UNCHANGED <<dpy, dshm, fb, sink, cb>>

DisplaySockDown ==
    /\ denv.reachable
    /\ denv' = [denv EXCEPT !.reachable = FALSE]
    /\ UNCHANGED <<dpy, dshm, fb, sink, cb>>

DisplayPeerClose ==
    /\ denv.peer_open
    /\ denv' = [denv EXCEPT !.peer_open = FALSE]
    /\ UNCHANGED <<dpy, dshm, fb, sink, cb>>

----------------------------------------------------------------------------
(* Next-state relations *)

AudioInitOut == \E as \in AudSettings, ok \in BOOLEAN : juke_init_out(as, ok)

AudioWriteBegin ==
    /\ hw.state
    /\ \E len \in Lens :
          \E est \in audio_rate_get_bytes(len, hw.bytes_per_frame) :
              juke_write_begin(len, est)

AudioWriteCopy == juke_write_copy

AudioWritePublish == juke_write_publish

AudioWriteReturn == juke_write_return

AudioVolumeOut == \E vol \in Volumes : juke_volume_out(vol)

AudioEnableOut == \E enable \in BOOLEAN : juke_enable_out(enable)

AudioConsumer ==
    \E k \in 1..(JUKE_AUDIO_RING_FRAMES - 1) : ConsumerAdvance(k)

AudioRendererEnable == \E v \in {0, 1} : RendererEnable(v)

AudioNext ==
    \/ (AudioInitOut /\ UNCHANGED dvars)
    \/ (AudioWriteBegin /\ UNCHANGED dvars)
    \/ (AudioWriteCopy /\ UNCHANGED dvars)
    \/ (AudioWritePublish /\ UNCHANGED dvars)
    \/ (AudioWriteReturn /\ UNCHANGED dvars)
    \/ (AudioVolumeOut /\ UNCHANGED dvars)
    \/ (AudioEnableOut /\ UNCHANGED dvars)
    \/ (AudioConsumer /\ UNCHANGED dvars)
    \/ (AudioRendererEnable /\ UNCHANGED dvars)
    \/ (AudioSockUp /\ UNCHANGED dvars)
    \/ (AudioSockDown /\ UNCHANGED dvars)
    \/ (AudioPeerClose /\ UNCHANGED dvars)


GfxSwitch ==
    \E new_surface \in {0} \cup SurfaceIds, ok \in BOOLEAN :
        juke_shmem_gfx_switch(new_surface, ok)

GfxUpdate ==
    /\ dpy.surface /= 0
    /\ dshm.frame_counter < MaxCount
    /\ \E r \in Rects(Surfaces[dpy.surface]) :
          juke_shmem_gfx_update(r.x, r.y, r.w, r.h)

Refresh == juke_shmem_refresh

\* the console of these runs has no cursor or the first one
CursorDefine ==
    /\ dshm.cursor_version < MaxCount
    /\ \E con_cursor \in {0, 1} :
          juke_shmem_cursor_define(con_cursor)

\* cursor_define called again and again on one region, with any cursor
CursorDefineRepeat ==
    /\ dshm.cursor_version <= MaxCount + 1
    /\ \E con_cursor \in {0} \cup CursorIds :
          juke_shmem_cursor_define(con_cursor)

MouseSet == \E p \in MousePos : juke_shmem_mouse_set(p.x, p.y, p.on)

DisplayRendererInput == \E ev \in InputEvents : RendererInput(ev)

\* the display callbacks with the guest and the renderer's input, over a
\* socket that stays as it was at start-up
DisplayNext ==
    \/ (GfxSwitch /\ UNCHANGED avars)
    \/ (GfxUpdate /\ UNCHANGED avars)
    \/ (Refresh /\ UNCHANGED avars)
    \/ (CursorDefine /\ UNCHANGED avars)
    \/ (MouseSet /\ UNCHANGED avars)
    \/ (GuestDraw /\ UNCHANGED avars)
    \/ (DisplayRendererInput /\ UNCHANGED avars)

\* the rectangles gfx_update is called with: those of the surface, or one
\* pixel when the console has no surface
UpdateRects ==
    IF dpy.surface /= 0 THEN Rects(Surfaces[dpy.surface])
    ELSE { [x |-> 0, y |-> 0, w |-> 1, h |-> 1] }

GfxUpdateCopy ==
    /\ dshm.frame_counter < MaxCount
    /\ \E r \in UpdateRects : juke_shmem_gfx_update_copy(r.x, r.y, r.w, r.h)

GfxUpdateDirty == juke_shmem_gfx_update_dirty

GfxUpdateBump == juke_shmem_gfx_update_bump

CursorDefineWrite ==
    /\ dshm.cursor_version < MaxCount
    /\ \E con_cursor \in {0} \cup CursorIds :
          juke_shmem_cursor_define_write(con_cursor)

CursorDefineBump == juke_shmem_cursor_define_bump

\* the publishing callbacks step by step, next to the guest that draws
\* while they run
PublishNext ==
    \/ (GfxSwitch /\ UNCHANGED avars)
    \/ (GfxUpdateCopy /\ UNCHANGED avars)
    \/ (GfxUpdateDirty /\ UNCHANGED avars)
    \/ (GfxUpdateBump /\ UNCHANGED avars)
    \/ (CursorDefineWrite /\ UNCHANGED avars)
    \/ (CursorDefineBump /\ UNCHANGED avars)
    \/ (GuestDraw /\ UNCHANGED avars)

\* the gfx_switch that finds no region: once a region exists it is kept
DisplayOpen == dpy.shmem = 0 /\ GfxSwitch

\* gfx_update called again and again on one region
GfxUpdateRepeat ==
    /\ dshm.frame_counter <= MaxCount + 1
    /\ \E r \in UpdateRects : juke_shmem_gfx_update_copy(r.x, r.y, r.w, r.h)

\* gfx_update in its observable steps next to a renderer that follows
\* frame_counter and reads the dirty rectangle
DirtyReadNext ==
    \/ (DisplayOpen /\ UNCHANGED avars)
    \/ (GfxUpdateRepeat /\ UNCHANGED avars)
    \/ (GfxUpdateDirty /\ UNCHANGED avars)
    \/ (GfxUpdateBump /\ UNCHANGED avars)
    \/ (RendererLoadCounter /\ UNCHANGED avars)
    \/ (RendererReadDirty /\ UNCHANGED avars)

\* cursor shapes defined one after another on a region that holds pixels
\* and queued input
CursorNext ==
    \/ (DisplayOpen /\ UNCHANGED avars)
    \/ (GfxUpdate /\ UNCHANGED avars)
    \/ (CursorDefineRepeat /\ UNCHANGED avars)
    \/ (DisplayRendererInput /\ UNCHANGED avars)

\* the five callbacks of juke_shmem_ops alone, each from entry to return
CallbacksNext ==
    \/ (GfxSwitch /\ UNCHANGED avars)
    \/ (GfxUpdate /\ UNCHANGED avars)
    \/ (Refresh /\ UNCHANGED avars)
    \/ (CursorDefine /\ UNCHANGED avars)
    \/ (MouseSet /\ UNCHANGED avars)

UiGfxSwitch ==
    \E new_surface \in {0} \cup SurfaceIds, ok \in BOOLEAN :
        ui_juke_shmem_gfx_switch(new_surface, ok)

UiRefresh == ui_juke_shmem_refresh

\* the callbacks of juke_shmem_ops in src/ui/juke-shmem.c, with the guest
UiNext ==
    \/ (UiGfxSwitch /\ UNCHANGED avars)
    \/ (GfxUpdate /\ UNCHANGED avars)
    \/ (UiRefresh /\ UNCHANGED avars)
    \/ (GuestDraw /\ UNCHANGED avars)

\* the operations that read or write the handshake state (dpy, denv) with
\* the socket's environment; the other callbacks leave dpy and denv unchanged
HandshakeNext ==
    \/ (GfxSwitch /\ UNCHANGED avars)
    \/ (Refresh /\ UNCHANGED avars)
    \/ (DisplaySockUp /\ UNCHANGED avars)
    \/ (DisplaySockDown /\ UNCHANGED avars)
    \/ (DisplayPeerClose /\ UNCHANGED avars)

Init == AudioInit /\ DisplayInit

\* one channel at a time: the channels share no state, so each runs next to
\* the other as constructed (the audio channel next to a display started
\* without a socket)
Next ==
    \/ (DisplayInit /\ ~dpy.socket_path /\ ~denv.reachable /\ AudioNext)
    \/ (AudioInit /\ HandshakeNext)

Spec == Init /\ [][Next]_vars

\* the audio channel alone, the display channel left as constructed
AudioOnlyInit ==
    /\ AudioInit
    /\ DisplayInit
    /\ ~dpy.socket_path
    /\ ~denv.reachable

SpecAudio == AudioOnlyInit /\ [][AudioNext]_vars

\* the voice is opened until it has its region
AudioOpen == aud.shmem = 0 /\ AudioInitOut

\* one voice, opened once, written to by the mixer and read by the renderer
FifoNext ==
    \/ (AudioOpen /\ UNCHANGED dvars)
    \/ (AudioWriteBegin /\ UNCHANGED dvars)
    \/ (AudioWriteCopy /\ UNCHANGED dvars)
    \/ (AudioWritePublish /\ UNCHANGED dvars)
    \/ (AudioWriteReturn /\ UNCHANGED dvars)
    \/ (AudioConsumer /\ UNCHANGED dvars)
    \/ (AudioRendererEnable /\ UNCHANGED dvars)

SpecFifo == AudioOnlyInit /\ [][FifoNext]_vars

\* the mixer asks for half a ring or for a ring less one frame
AudioWriteFrames ==
    /\ hw.state
    /\ \E frames \in {JUKE_AUDIO_RING_FRAMES \div 2, JUKE_AUDIO_RING_FRAMES - 1} :
          \E est \in audio_rate_get_bytes(frames * hw.bytes_per_frame,
                                          hw.bytes_per_frame) :
              juke_write_begin(frames * hw.bytes_per_frame, est)

\* one voice, opened once, with writes of these sizes and the renderer
AdvanceNext ==
    \/ (AudioOpen /\ UNCHANGED dvars)
    \/ (AudioWriteFrames /\ UNCHANGED dvars)
    \/ (AudioWriteCopy /\ UNCHANGED dvars)
    \/ (AudioWritePublish /\ UNCHANGED dvars)
    \/ (AudioWriteReturn /\ UNCHANGED dvars)
    \/ (AudioConsumer /\ UNCHANGED dvars)
    \/ (AudioRendererEnable /\ UNCHANGED dvars)

SpecAdvance == AudioOnlyInit /\ [][AdvanceNext]_vars

\* the display channel alone, the audio channel left as constructed
DisplayOnlyInit ==
    /\ AudioInit
    /\ DisplayInit
    /\ ~aenv.reachable

SpecDisplay == DisplayOnlyInit /\ [][DisplayNext]_vars

SpecCallbacks == DisplayOnlyInit /\ [][CallbacksNext]_vars

SpecPublish == DisplayOnlyInit /\ [][PublishNext]_vars

SpecDirtyRead == DisplayOnlyInit /\ [][DirtyReadNext]_vars

SpecCursor == DisplayOnlyInit /\ [][CursorNext]_vars

SetupRefresh == juke_shmem_setup_refresh

RefreshNext == SetupRefresh /\ UNCHANGED avars

ProbeReaddir == juke_shmem_probe_readdir

ProbeCrtc == juke_shmem_probe_crtc

ProbeCardDone == juke_shmem_probe_card_done

\* juke_shmem_setup_refresh on Linux, from the probe to the registration
ProbeNext ==
    \/ (ProbeReaddir /\ UNCHANGED avars)
    \/ (ProbeCrtc /\ UNCHANGED avars)
    \/ (ProbeCardDone /\ UNCHANGED avars)
    \/ (SetupRefresh /\ UNCHANGED avars)

ProbeInit ==
    /\ AudioInit
    /\ ~aenv.reachable
    /\ DisplayProbing

SpecProbe == ProbeInit /\ [][ProbeNext]_vars

\* the end of juke_shmem_init, for every result of the probe
RefreshInit ==
    /\ AudioInit
    /\ ~aenv.reachable
    /\ DisplayProbed

SpecRefresh == RefreshInit /\ [][RefreshNext]_vars

\* juke_shmem_init of src/ui/juke-shmem.c has returned: it registers the
\* listener and probes nothing
UiInit ==
    /\ AudioInit
    /\ ~aenv.reachable
    /\ \E path \in BOOLEAN, up \in BOOLEAN :
         LET W == juke_shmem_init(path, up)
         IN dpy = W.s /\ denv = W.e
    /\ dshm = Unmapped
    /\ fb = 0
    /\ sink = NoCalls
    /\ cb = Idle

\* the display backend as built from src/ui/juke-shmem.c
SpecUi == UiInit /\ [][UiNext]_vars

SpecHandshake == DisplayOnlyInit /\ [][HandshakeNext]_vars

\* the display timer (dpy_refresh) keeps firing while the emulator runs
SpecHandshakeFair ==
    /\ DisplayOnlyInit
    /\ [][HandshakeNext]_vars
    /\ WF_vars(Refresh /\ UNCHANGED avars)

----------------------------------------------------------------------------
(* Audio ring: properties of juke_write, checked under SpecAudio *)

\* ring indices of the frames written and not yet consumed
Unconsumed ==
    { AAdd32(ashm.read_idx, i) :
         i \in 0..(ASub32(ashm.write_idx, ashm.read_idx) - 1) }

RingSlot(idx) == BitAnd(idx, JUKE_AUDIO_RING_FRAMES - 1)

\* the ring slots the memcpy calls of the write in progress store to
CopyTargets ==
    { CopySlot(ashm.ring_frames, wr.write_idx, wr.frame_size, j) :
         j \in 0..(wr.frames_to_write - 1) }

\* C1: no overwrite.  At every point of every interleaving of juke_write
\* with the consumer, at most ring_frames - 1 frames are written and not yet
\* consumed (so the masked count (write_idx - read_idx) & (ring_frames - 1)
\* is their number), each of them is still in its slot, and the slots the
\* producer is about to copy into hold none of them.
NoOverwrite ==
    aud.shmem /= 0 =>
       /\ ASub32(ashm.write_idx, ashm.read_idx) <= JUKE_AUDIO_RING_FRAMES - 1
       /\ used_frames(ashm.ring_frames, ashm.write_idx, ashm.read_idx)
             = ASub32(ashm.write_idx, ashm.read_idx)
       /\ \A idx \in Unconsumed :
             ashm.samples[RingSlot(idx)] = FrameTag(idx)
       /\ wr.pc = "copy" =>
             /\ wr.write_idx = ashm.write_idx
             /\ CopyTargets \cap { RingSlot(idx) : idx \in Unconsumed } = {}
       /\ wr.pc = "publish" =>
             ASub32(AAdd32(wr.write_idx, wr.frames_to_write), ashm.read_idx)
                <= JUKE_AUDIO_RING_FRAMES - 1

\* a write split across the wrap boundary, whose index wraps too, has been
\* copied next to frames the consumer has not read yet
NoOverwriteWitness ==
    /\ wr.pc = "publish"
    /\ wr.copied >= 2
    /\ RingSlot(wr.write_idx) + wr.copied > JUKE_AUDIO_RING_FRAMES
    /\ AAdd32(wr.write_idx, wr.copied) < wr.write_idx
    /\ Unconsumed /= {}

HeaderConstantsStep ==
    aud.shmem /= 0 =>
       /\ aud'.shmem = aud.shmem
       /\ aud'.shmem_fd = aud.shmem_fd
       /\ aud'.shmem_size = aud.shmem_size
       /\ ashm'.magic = ashm.magic
       /\ ashm'.version = ashm.version
       /\ ashm'.ring_frames = ashm.ring_frames
       /\ ashm'.channels = ashm.channels
       /\ ashm'.sample_rate = ashm.sample_rate
       /\ ashm'.format = ashm.format

HeaderConstantsInit ==
    aud.shmem /= 0 =>
       /\ ashm.magic = JUKE_AUDIO_MAGIC
       /\ ashm.version = JUKE_AUDIO_VERSION
       /\ ashm.ring_frames = JUKE_AUDIO_RING_FRAMES
       /\ aud.shmem_fd = aud.shmem
       /\ \E as \in AudSettings :
             /\ ashm.channels = as.nchannels
             /\ ashm.sample_rate = as.freq
             /\ aud.shmem_size = SizeofJukeAudioHeader
                   + JUKE_AUDIO_RING_FRAMES * audio_pcm_init_info(as)

\* C6: once a region exists, no step (init_out with any settings, write,
\* enable_out, volume_out, the renderer) changes magic, version, ring_frames,
\* channels, sample_rate or format, and the mapping, its fd and its size stay
\* the same; magic, version and ring_frames hold the values init_out stored.
HeaderConstantsStable ==
    []HeaderConstantsInit /\ [][HeaderConstantsStep]_vars

\* a later init_out with other settings has run on the existing region, and
\* a write has copied frames since
HeaderConstantsWitness ==
    /\ aud.shmem /= 0
    /\ aud.shmem_size /= SizeofJukeAudioHeader
          + JUKE_AUDIO_RING_FRAMES * hw.bytes_per_frame
    /\ wr.pc = "ret"
    /\ wr.copied > 0

----------------------------------------------------------------------------
(* Audio ring: delivery to the consumer, checked under SpecFifo.  The frame
   the mixer hands over for stream position idx is FrameTag(idx). *)

FifoStep ==
    \* a write publishes the next frames of the stream, each in the slot of
    \* its position, and reports their number
    /\ juke_write_publish =>
          /\ wr.write_idx = ashm.write_idx
          /\ ashm'.write_idx = AAdd32(ashm.write_idx, wr.copied)
          /\ wr'.ret = wr.copied * wr.frame_size
          /\ \A j \in 0..(wr.copied - 1) :
                ashm'.samples[RingSlot(AAdd32(ashm.write_idx, j))]
                   = FrameTag(AAdd32(ashm.write_idx, j))
    \* the consumer reads the next frames of the stream, in order
    /\ \A k \in 1..(JUKE_AUDIO_RING_FRAMES - 1) :
          ConsumerAdvance(k) =>
             /\ k <= ASub32(ashm.write_idx, ashm.read_idx)
             /\ \A i \in 0..(k - 1) :
                   ashm.samples[RingSlot(AAdd32(ashm.read_idx, i))]
                      = FrameTag(AAdd32(ashm.read_idx, i))
    \* and nothing else moves either index
    /\ (aud.shmem /= 0 /\ ashm'.write_idx /= ashm.write_idx) => juke_write_publish
    /\ (aud.shmem /= 0 /\ ashm'.read_idx /= ashm.read_idx) =>
          \E k \in 1..(JUKE_AUDIO_RING_FRAMES - 1) : ConsumerAdvance(k)

\* C21: over every interleaving of juke_write with the consumer, each write
\* appends the frames it reports to the stream at write_idx, and the
\* consumer, reading slots [read_idx, write_idx) at index & (ring_frames - 1),
\* reads the stream in order, without loss or duplication, also when a
\* write is split across the wrap boundary.
FifoDelivery == [][FifoStep]_vars

\* the consumer has read past a write that was split across the boundary
FifoDeliveryWitness ==
    /\ aud.shmem /= 0
    /\ ashm.read_idx = JUKE_AUDIO_RING_FRAMES + 1
    /\ ashm.write_idx = JUKE_AUDIO_RING_FRAMES + 1
    /\ ashm.samples[0] = FrameTag(JUKE_AUDIO_RING_FRAMES)
    /\ ashm.samples[JUKE_AUDIO_RING_FRAMES - 1]
          = FrameTag(JUKE_AUDIO_RING_FRAMES - 1)
    /\ wr.pc = "ret"
    /\ wr.copied = 2

----------------------------------------------------------------------------
(* Audio ring: the write index, checked under SpecAdvance *)

\* the clamping of the two writes of the scenario at the ring's real size:
\* 4096 frames into the empty ring at 0, then 6000 into the empty ring at 4096
ScenarioFrames ==
    /\ write_clamp(4096, free_frames(8192, 0, 0)) = 4096
    /\ write_clamp(6000, free_frames(8192, 4096, 4096)) = 6000
    /\ 4096 + 6000 = 10096

AdvanceStep ==
    /\ ScenarioFrames
    \* the copy stores frames, at the slots of their positions also when the
    \* position wraps, and no header field
    /\ juke_write_copy =>
          /\ ashm' = [ashm EXCEPT !.samples = ashm'.samples]
          /\ wr.frames_to_write > 0
          /\ \A j \in 0..(wr.frames_to_write - 1) :
                ashm'.samples[BitAnd((ashm.write_idx + j) % AU32,
                                     ashm.ring_frames - 1)]
                   = FrameTag((ashm.write_idx + j) % AU32)
    \* the index is stored after the copy, and nothing else with it
    /\ juke_write_publish =>
          /\ wr.copied = wr.frames_to_write
          /\ ashm' = [ashm EXCEPT
                         !.write_idx = (ashm.write_idx + wr.copied) % AU32]
          /\ wr'.ret = wr.copied * wr.frame_size
    \* a write that is not copying leaves the region alone
    /\ (wr.pc \in {"idle", "ret"} /\ wr'.pc \in {"idle", "ret", "copy"}
          /\ aud.shmem /= 0 /\ wr' /= wr) => ashm' = ashm

\* C22: a juke_write that copies k > 0 frames stores write_idx := (write_idx
\* + k) modulo the index width after the copy and changes no other header
\* field; the frames go to the slots of their positions also when
\* write_idx wraps.
WriteIdxAdvance == [][AdvanceStep]_vars

\* from write_idx = 0 and an empty ring: half a ring written and consumed,
\* then a ring less one frame written (4096, then 6000 of 8192 at scale)
WriteIdxAdvanceWitness ==
    /\ aud.shmem /= 0
    /\ wr.pc = "ret"
    /\ wr.copied = JUKE_AUDIO_RING_FRAMES - 1
    /\ wr.ret = (JUKE_AUDIO_RING_FRAMES - 1) * wr.frame_size
    /\ ashm.read_idx = JUKE_AUDIO_RING_FRAMES \div 2
    /\ ashm.write_idx
          = JUKE_AUDIO_RING_FRAMES \div 2 + JUKE_AUDIO_RING_FRAMES - 1
    /\ \A idx \in Unconsumed : ashm.samples[RingSlot(idx)] = FrameTag(idx)

\* free_frames as a write entering now computes it (lines 177-178)
FreeAtEntry ==
    ashm.ring_frames
       - BitAnd(ASub32(ashm.write_idx, ashm.read_idx), ashm.ring_frames - 1) - 1

BackpressureStep ==
    hw.state =>
    \A len \in Lens :
       \A est \in audio_rate_get_bytes(len, hw.bytes_per_frame) :
          ( /\ juke_write_begin(len, est)
            /\ aud.shmem /= 0
            /\ ashm.enabled /= 0
            /\ FreeAtEntry = 0 )
          => /\ wr'.pc = "ret"
             /\ wr'.ret = est
             /\ wr'.copied = 0
             /\ ashm' = ashm

\* C17: a juke_write that finds playback enabled and no free frame returns
\* at once with the rate controller's estimate, and leaves write_idx and
\* every ring slot as they were.
Backpressure == [][BackpressureStep]_vars

\* a write of whole frames has returned from a full, enabled ring
BackpressureWitness ==
    /\ wr.pc = "ret"
    /\ wr.copied = 0
    /\ wr.len >= wr.frame_size
    /\ wr.ret = wr.len
    /\ aud.shmem /= 0
    /\ ashm.enabled = 1
    /\ FreeAtEntry = 0
    /\ ashm.write_idx < ashm.read_idx

PausedStep ==
    hw.state =>
    \A len \in Lens :
       \A est \in audio_rate_get_bytes(len, hw.bytes_per_frame) :
          ( /\ juke_write_begin(len, est)
            /\ aud.shmem /= 0
            /\ ashm.enabled = 0 )
          => /\ wr'.pc = "ret"
             /\ wr'.ret = est
             /\ wr'.copied = 0
             /\ ashm' = ashm
             \* the connect and the send were tried first
             /\ (aud.client_fd < 0 /\ aenv.reachable) => aud'.client_fd >= 0
             /\ (aud'.client_fd >= 0 /\ aenv'.peer_open) => aud'.fd_sent
             /\ (aud'.fd_sent /\ ~aud.fd_sent) =>
                   aenv'.sendmsgs = Min(aenv.sendmsgs + 1, MaxLog)

\* C18: a juke_write that reads enabled = 0 returns the rate controller's
\* estimate for any len and leaves write_idx and the ring slots unchanged,
\* after having tried the connect and the send of the fd.
Paused == [][PausedStep]_vars

\* a paused write has connected and sent the fd on its way
PausedWitness ==
    /\ wr.pc = "ret"
    /\ wr.copied = 0
    /\ wr.len = MaxLen
    /\ ashm.enabled = 0
    /\ aud.shmem /= 0
    /\ aud.fd_sent
    /\ aenv.sendmsgs = 1
    /\ ashm.write_idx = 0

VolumeStep ==
    \A vol \in Volumes :
       juke_volume_out(vol) =>
          IF aud.shmem = 0
          THEN ashm' = ashm
          ELSE /\ ashm'.muted \in {0, 1}
               /\ (ashm'.muted = 1) = vol.mute
               /\ ashm'.volume_left = vol.vol[1]
               /\ (vol.channels > 1 => ashm'.volume_right = vol.vol[2])
               /\ (vol.channels <= 1 => ashm'.volume_right = vol.vol[1])
               /\ ashm' = [ashm EXCEPT !.muted = ashm'.muted,
                                       !.volume_left = ashm'.volume_left,
                                       !.volume_right = ashm'.volume_right]

\* C16: after volume_out(vol) with a region, muted is 0 or 1 and is 1
\* exactly when vol.mute, volume_left is the first volume, volume_right is
\* the second volume when channels > 1 and the first otherwise, and nothing
\* else of the region has changed; without a region nothing changes.
VolumeRoundTrip == [][VolumeStep]_vars

\* a mono volume has been stored: the right channel repeats the left
VolumeRoundTripWitness ==
    /\ aud.shmem /= 0
    /\ ashm.muted = 0
    /\ ashm.volume_left = 64
    /\ ashm.volume_right = 64

----------------------------------------------------------------------------
(* Display region: counters and indices, checked under SpecDisplay *)

\* the step leaves the region in place: same mapping and fd before and after
RegionKept ==
    /\ dpy.shmem /= 0
    /\ dpy'.shmem = dpy.shmem
    /\ dpy'.shmem_fd = dpy.shmem_fd

CountersMonotoneStep ==
    RegionKept =>
       /\ dshm'.frame_counter >= dshm.frame_counter
       /\ dshm'.cursor_version >= dshm.cursor_version

\* C3: while the region is not replaced, no step (gfx_switch, gfx_update,
\* cursor_define, mouse_set, refresh) decreases frame_counter or
\* cursor_version.
CountersMonotone == [][CountersMonotoneStep]_vars

\* an index moves forward: by at most the ring's capacity, modulo 2^32
IndexForward(old, new) == DSub32(new, old) <= JUKE_INPUT_RING_SIZE

RingIndicesStep ==
    RegionKept =>
       /\ IndexForward(dshm.ring.write_idx, dshm'.ring.write_idx)
       /\ IndexForward(dshm.ring.read_idx, dshm'.ring.read_idx)
       /\ (\E id \in SurfaceIds, ok \in BOOLEAN :
              juke_shmem_gfx_switch(id, ok))
             => dshm'.ring = dshm.ring

\* C4: while the region is not replaced, no step moves the input ring's
\* write_idx or read_idx backwards; a gfx_switch that fits in the existing
\* region leaves both where they are.
RingIndicesKept == [][RingIndicesStep]_vars

IndexOwnershipStep ==
    (DisplayMapped /\ RegionKept /\ ~DisplayRendererInput) =>
       dshm'.ring.write_idx = dshm.ring.write_idx

\* C5: once the renderer holds the fd of the current region, every step
\* that is not the renderer's own leaves the input ring's write_idx as the
\* renderer stored it.
IndexOwnership == [][IndexOwnershipStep]_vars

ResizeCorrectStep ==
    \A id \in SurfaceIds, ok \in BOOLEAN :
       ( /\ juke_shmem_gfx_switch(id, ok)
         /\ (Needed(Surfaces[id]) > dpy.shmem_size => ok) )
       => /\ dshm'.width = Surfaces[id].width
          /\ dshm'.height = Surfaces[id].height
          /\ dshm'.stride = Surfaces[id].stride
          /\ dshm'.format = Surfaces[id].format
          /\ \A i \in 0..(Surfaces[id].stride * Surfaces[id].height - 1) :
                dshm'.pixels[i] = SurfaceByte(id, fb, i)

\* C10: every gfx_switch with a non-null surface whose allocation, if it
\* makes one, succeeds leaves the header's width, height, stride and format
\* equal to the surface's and the first stride * height bytes of the pixel
\* buffer equal to the surface's bytes.
ResizeCorrect == [][ResizeCorrectStep]_vars

----------------------------------------------------------------------------
(* Handshake of both channels *)

AudioW == [s |-> aud, e |-> aenv]

DisplayW == [s |-> dpy, e |-> denv]

\* no peer, no fd, or the fd has been sent
SendGuard(s) == s.client_fd < 0 \/ s.shmem_fd < 0 \/ s.fd_sent

\* in every reachable state of either channel, a send_fd call made with no
\* peer, no fd or fd_sent set leaves the state and the socket as they are
SendFdNoOp ==
    /\ SendGuard(aud) => juke_audio_send_fd(AudioW) = AudioW
    /\ SendGuard(dpy) => juke_shmem_send_fd(DisplayW) = DisplayW

\* fd_sent turns true only in a step whose sendmsg delivered the fd of the
\* current region; while fd_sent stays true over the same region and
\* connection, no step makes a sendmsg
SendFdStep(s, e, s1, e1) ==
    /\ (~s.fd_sent /\ s1.fd_sent) =>
          /\ e1.rcvd = Append(e.rcvd, s1.shmem_fd)
          /\ e1.sendmsgs = e.sendmsgs + 1
          /\ e1.peer_open
    /\ (s.fd_sent /\ s1.shmem_fd = s.shmem_fd /\ s1.client_fd = s.client_fd) =>
          /\ s1.fd_sent
          /\ e1.sendmsgs = e.sendmsgs
          /\ e1.rcvd = e.rcvd

\* C7: handshake idempotence on both channels: send_fd is a no-op without a
\* peer, without an fd, or with fd_sent set; after a successful send, further
\* handshake attempts over the same region and connection send nothing; and
\* fd_sent becomes true only on a successful sendmsg.
HandshakeIdempotent ==
    /\ []SendFdNoOp
    /\ [][SendFdStep(aud, aenv, aud', aenv')]_vars
    /\ [][SendFdStep(dpy, denv, dpy', denv')]_vars

\* a write that copied frames ran its handshake after the one sendmsg that
\* delivered the fd, and made no further sendmsg
HandshakeIdempotentWitness ==
    /\ wr.pc = "ret"
    /\ wr.copied > 0
    /\ aud.fd_sent
    /\ aenv.sendmsgs = 1
    /\ aenv.rcvd = <<aud.shmem_fd>>

\* fd_sent implies that the fd the peer received last is the fd of the
\* current, live region
SentFdIsCurrent ==
    /\ dpy.shmem = 0 => (dpy.shmem_fd < 0 /\ ~dpy.fd_sent)
    /\ dpy.fd_sent =>
          /\ dpy.shmem_fd >= 0
          /\ dpy.shmem_fd = dpy.shmem
          /\ Len(denv.rcvd) > 0
          /\ denv.rcvd[Len(denv.rcvd)] = dpy.shmem_fd

\* a step that replaces the region sets fd_sent only by sending the new fd;
\* gfx_switch and refresh leave fd_sent set whenever a region exists and the
\* peer is connected
RearmStep ==
    /\ (dpy.shmem /= 0 /\ dpy'.shmem /= dpy.shmem /\ dpy'.fd_sent) =>
          /\ denv'.rcvd = Append(denv.rcvd, dpy'.shmem_fd)
          /\ denv'.sendmsgs = denv.sendmsgs + 1
    /\ ( /\ (GfxSwitch \/ Refresh)
         /\ dpy'.shmem_fd >= 0
         /\ dpy'.client_fd >= 0
         /\ denv'.peer_open ) => dpy'.fd_sent

\* C8: region replacement re-arms the handshake: a replacing gfx_switch
\* clears fd_sent and the new region's fd is sent to the connected peer in
\* that gfx_switch or in the next refresh; fd_sent is never true while the
\* peer's latest fd is that of a freed region.
ReplacementRearms == []SentFdIsCurrent /\ [][RearmStep]_vars

\* the region has been replaced and the peer holds the old and the new fd
ReplacementRearmsWitness ==
    /\ dpy.fd_sent
    /\ Len(denv.rcvd) = 2
    /\ denv.rcvd[1] /= denv.rcvd[2]
    /\ denv.rcvd[2] = dpy.shmem_fd

\* C9: if the renderer's socket eventually stays reachable and a region
\* exists, then with refresh scheduled fairly the fd is eventually sent.
HandshakeEventuallySends ==
    (<>[](dpy.socket_path /\ denv.reachable /\ dpy.shmem_fd >= 0))
       => <>dpy.fd_sent

----------------------------------------------------------------------------
(* Display region: allocation in gfx_switch, checked under SpecHandshake *)

\* the step is gfx_switch(id) and installs a new mapping with a new fd
Replaces ==
    /\ dpy'.shmem /= 0
    /\ dpy'.shmem /= dpy.shmem
    /\ dpy'.shmem_fd = dpy'.shmem
    /\ dpy'.shmem_fd /= dpy.shmem_fd
    /\ \A i \in DOMAIN denv.rcvd : denv.rcvd[i] /= dpy'.shmem_fd

\* the mapping, its fd and the recorded capacity are as before the step
RegionUntouched ==
    /\ dpy'.shmem = dpy.shmem
    /\ dpy'.shmem_fd = dpy.shmem_fd
    /\ dpy'.shmem_size = dpy.shmem_size

GrowOnlyAsStatedStep ==
    /\ \A id \in SurfaceIds, ok \in BOOLEAN :
          juke_shmem_gfx_switch(id, ok) =>
             /\ Replaces <=> Needed(Surfaces[id]) > dpy.shmem_size
             /\ Needed(Surfaces[id]) <= dpy.shmem_size =>
                   (RegionUntouched /\ dpy'.fd_sent = dpy.fd_sent)
    /\ dpy'.shmem_size >= dpy.shmem_size

\* C11 as stated: gfx_switch replaces the region (new mapping, new fd)
\* exactly when the needed bytes exceed the capacity, leaves mapping, fd,
\* capacity and fd_sent unchanged otherwise, and the capacity never decreases.
GrowOnlyAsStated == [][GrowOnlyAsStatedStep]_vars

GrowOnlyStep ==
    /\ \A id \in SurfaceIds, ok \in BOOLEAN :
          juke_shmem_gfx_switch(id, ok) =>
             IF Needed(Surfaces[id]) > dpy.shmem_size
             THEN /\ dpy'.shmem_size = Needed(Surfaces[id])
                  /\ ok => Replaces
                  /\ ~ok => /\ dpy'.shmem = 0
                            /\ dpy'.shmem_fd = -1
                            /\ ~dpy'.fd_sent
             ELSE /\ RegionUntouched
                  /\ dpy.fd_sent => dpy'.fd_sent
                  /\ (~dpy.fd_sent /\ dpy'.fd_sent) =>
                        denv'.rcvd = Append(denv.rcvd, dpy.shmem_fd)
    /\ \A ok \in BOOLEAN :
          juke_shmem_gfx_switch(0, ok) =>
             (RegionUntouched /\ dpy'.fd_sent = dpy.fd_sent)
    /\ dpy'.shmem_size >= dpy.shmem_size

\* C11 amended: gfx_switch replaces the region (new mapping, new fd) exactly
\* when the needed bytes exceed the recorded capacity and the allocator
\* succeeds; when the allocator fails the old region is freed, no region
\* exists and the capacity is still set to the needed bytes; when the needed
\* bytes do not exceed the capacity, the mapping, fd and capacity are left
\* unchanged and fd_sent is not cleared; the capacity never decreases.
GrowOnly == [][GrowOnlyStep]_vars

\* a smaller surface has been switched to and the larger region was kept
GrowOnlyWitness ==
    /\ dpy.shmem /= 0
    /\ dpy.surface /= 0
    /\ dpy.shmem_size > Needed(Surfaces[dpy.surface])
    /\ dshm.width = Surfaces[dpy.surface].width
    /\ dpy.fd_sent

----------------------------------------------------------------------------
(* Display region: the callbacks, checked under SpecCallbacks *)

AllocFailureStep ==
    /\ \A id \in SurfaceIds :
          ( /\ juke_shmem_gfx_switch(id, FALSE)
            /\ Needed(Surfaces[id]) > dpy.shmem_size )
          => /\ dpy'.shmem = 0
             /\ dpy'.shmem_fd = -1
             /\ ~dpy'.fd_sent
             /\ dshm' = Unmapped
    /\ (dpy.shmem = 0 /\ dpy'.shmem = 0) =>
          /\ dshm = Unmapped
          /\ dshm' = dshm
          /\ sink' = NoCalls

\* C12: a gfx_switch whose allocation fails leaves shmem = null, and while
\* shmem is null every gfx_update, cursor_define, mouse_set and refresh
\* leaves the (absent) region untouched and makes no input API call.
AllocFailureNoOps == [][AllocFailureStep]_vars

\* a region that the peer had received was freed by a gfx_switch whose
\* allocation failed
AllocFailureNoOpsWitness ==
    /\ dpy.shmem = 0
    /\ dpy.surface /= 0
    /\ dpy.shmem_size = Needed(Surfaces[dpy.surface])
    /\ denv.nalloc = 1
    /\ denv.rcvd = <<1>>
    /\ ~dpy.crashed

----------------------------------------------------------------------------
(* Display region: publishing a frame, checked under SpecPublish *)

\* pixel-buffer offsets of rows [y, y + h) of a surface
RowBytes(surface, y, h) ==
    { i \in DOMAIN dshm.pixels :
        \E row \in y..(y + h - 1) :
           i \in (row * Surfaces[surface].stride)
                   ..((row + 1) * Surfaces[surface].stride - 1) }

DirtyPublishStep ==
    \* entry: without a region or a surface nothing changes, otherwise the
    \* rows are copied and nothing else is written
    /\ \A r \in UpdateRects :
          juke_shmem_gfx_update_copy(r.x, r.y, r.w, r.h) =>
             IF dpy.shmem = 0 \/ dpy.surface = 0
             THEN dshm' = dshm /\ cb' = Idle /\ dpy' = dpy
             ELSE /\ cb'.pc = "update_dirty"
                  /\ \A i \in DOMAIN dshm.pixels :
                        dshm'.pixels[i] =
                           IF i \in RowBytes(dpy.surface, r.y, r.h)
                           THEN SurfaceByte(dpy.surface, fb, i)
                           ELSE dshm.pixels[i]
                  /\ dshm' = [dshm EXCEPT !.pixels = dshm'.pixels]
    \* the dirty rectangle is stored before the counter moves
    /\ (cb.pc = "update_dirty" /\ cb'.pc = "update_bump") =>
          dshm' = [dshm EXCEPT !.dirty_x = cb.x, !.dirty_y = cb.y,
                               !.dirty_w = cb.w, !.dirty_h = cb.h]
    \* the increment is the last store of the call: the rows and the
    \* rectangle are in place, and the counter moves by one
    /\ (cb.pc = "update_bump" /\ cb'.pc = "idle") =>
          /\ dshm.dirty_x = cb.x /\ dshm.dirty_y = cb.y
          /\ dshm.dirty_w = cb.w /\ dshm.dirty_h = cb.h
          /\ \A i \in RowBytes(dpy.surface, cb.y, cb.h) :
                dshm.pixels[i] = SurfaceByte(dpy.surface, cb.gen, i)
          /\ dshm' = [dshm EXCEPT !.frame_counter = dshm.frame_counter + 1]
    \* and the counter of a kept region moves at no other step
    /\ (dshm'.frame_counter /= dshm.frame_counter /\ cb.pc /= "idle") =>
          cb.pc = "update_bump"

\* C13: a gfx_update(x, y, w, h) with a region and a surface copies the
\* surface rows [y, y + h) into the pixel buffer, stores the dirty rectangle
\* (x, y, w, h), and then, as its last store, increments frame_counter by
\* exactly 1; with no region or no surface it changes nothing.
DirtyPublish == [][DirtyPublishStep]_vars

\* a call for the last pixel of the surface has returned, the guest having
\* drawn while it ran
DirtyPublishWitness ==
    /\ cb = Idle
    /\ dpy.shmem /= 0
    /\ dpy.surface = 1
    /\ dshm.frame_counter = 1
    /\ dshm.dirty_x = Surfaces[1].width - 1
    /\ dshm.dirty_w = 1
    /\ fb = 1
    /\ dshm.pixels[0] = SurfaceByte(1, 0, 0)

\* the header holds the metadata of the console's cursor c (0 is no cursor)
CursorStored(m, c) ==
    IF c = 0
    THEN m.cursor_width = 0 /\ m.cursor_height = 0
    ELSE /\ m.cursor_width = Min(Cursors[c].width, JUKE_CURSOR_MAX_SIZE)
         /\ m.cursor_height = Min(Cursors[c].height, JUKE_CURSOR_MAX_SIZE)
         /\ m.cursor_hot_x = Cursors[c].hot_x
         /\ m.cursor_hot_y = Cursors[c].hot_y
         /\ \A row \in 0..(m.cursor_height - 1), col \in 0..(m.cursor_width - 1) :
               m.cursor_pixels[row * JUKE_CURSOR_MAX_SIZE + col]
                  = CursorPixel(c, row * Cursors[c].width + col)

CursorPublishStep ==
    \* entry: without a region nothing changes, otherwise the metadata and
    \* the pixels are stored and the version is not yet touched
    /\ \A c \in {0} \cup CursorIds :
          juke_shmem_cursor_define_write(c) =>
             IF dpy.shmem = 0
             THEN dshm' = dshm /\ cb' = Idle /\ dpy' = dpy
             ELSE /\ cb'.pc = "cursor_bump"
                  /\ CursorStored(dshm', c)
                  /\ dshm'.cursor_version = dshm.cursor_version
    \* the increment is the last store of the call
    /\ (cb.pc = "cursor_bump" /\ cb'.pc = "idle") =>
          /\ CursorStored(dshm, cb.x)
          /\ dshm' = [dshm EXCEPT !.cursor_version = dshm.cursor_version + 1]
    /\ (dshm'.cursor_version /= dshm.cursor_version /\ cb.pc /= "idle") =>
          cb.pc = "cursor_bump"

\* C15: a cursor_define with a region stores the cursor's metadata and
\* pixels and then, as its last store, increments cursor_version by exactly
\* 1; with a cursor the stored width and height are min(width,
\* JUKE_CURSOR_MAX_SIZE) and min(height, JUKE_CURSOR_MAX_SIZE) and the
\* hotspot is the cursor's; with no cursor width = height = 0 and the
\* version is still incremented; without a region nothing changes.
CursorPublish == [][CursorPublishStep]_vars

\* a cursor wider than the slot has been defined
CursorPublishWitness ==
    /\ cb = Idle
    /\ dpy.shmem /= 0
    /\ dshm.cursor_version = 1
    /\ dshm.cursor_width = JUKE_CURSOR_MAX_SIZE
    /\ dshm.cursor_width < Cursors[1].width
    /\ dshm.cursor_height = Cursors[1].height
    /\ dshm.cursor_hot_x = Cursors[1].hot_x

----------------------------------------------------------------------------
(* Display input ring: the drain in refresh, checked under SpecDisplay *)

\* the events queued and not yet drained, oldest first
PendingEvents(m) ==
    [k \in 1..DSub32(m.ring.write_idx, m.ring.read_idx) |->
        m.ring.events[DAdd32(m.ring.read_idx, k - 1) % JUKE_INPUT_RING_SIZE]]

\* the input API calls for a sequence of events, in order
RECURSIVE CallsFor(_, _)
CallsFor(evs, hdr) ==
    IF evs = << >> THEN << >>
    ELSE Dispatch(Head(evs), hdr) \o CallsFor(Tail(evs), hdr)

IsPrefix(a, b) ==
    /\ Len(a) <= Len(b)
    /\ \A k \in 1..Len(a) : a[k] = b[k]

InputDrainStep ==
    \* a refresh dispatches the pending events in order, then syncs and
    \* stores read_idx if there was one
    /\ (juke_shmem_refresh /\ dpy'.shmem /= 0) =>
          /\ sink'.calls = CallsFor(PendingEvents(dshm), dshm)
          /\ sink'.synced = (PendingEvents(dshm) /= << >>)
          /\ IF PendingEvents(dshm) /= << >>
             THEN dshm' = [dshm EXCEPT !.ring.read_idx = dshm.ring.write_idx]
             ELSE dshm' = dshm
    \* no other step of a kept region takes an event out of the ring, so
    \* none is dropped undispatched and none is seen by two refreshes
    /\ (RegionKept /\ ~juke_shmem_refresh) =>
          /\ IsPrefix(PendingEvents(dshm), PendingEvents(dshm'))
          /\ (sink' = sink \/ sink'.calls = << >>)

\* C14: a refresh dispatches exactly the events at [read_idx, write_idx) in
\* index order, then calls sync and stores read_idx = write_idx if and only
\* if there was at least one; every queued event of a region that is kept
\* is dispatched by exactly one refresh: it stays queued until a refresh
\* dispatches it.
InputDrain == [][InputDrainStep]_vars

----------------------------------------------------------------------------
(* Display refresh interval, checked under SpecRefresh *)

RefreshIntervalStep ==
    cb.pc = "setup_refresh" =>
       /\ (cb.x > 0 /\ cb.x < 100) => dpy'.update_interval = cb.x
       /\ ~(cb.x > 0 /\ cb.x < 100) => dpy'.update_interval = 8
       /\ dpy'.update_interval \in 1..99

\* C20: the interval registered with the refresh scheduler is the probed
\* interval when it lies strictly between 0 and 100 ms and 8 ms otherwise,
\* so it is always in 1..99.
RefreshInterval == [][RefreshIntervalStep]_vars

\* the largest accepted interval has been registered
RefreshIntervalWitness ==
    /\ cb = Idle
    /\ dpy.update_interval = 99

----------------------------------------------------------------------------
(* Display header: magic and version *)

\* C19: whenever a display region exists, its header holds magic =
\* JUKE_SHMEM_MAGIC (0x454B554A) and version = 3.
MagicVersion ==
    dpy.shmem /= 0 =>
       /\ dshm.magic = JUKE_SHMEM_MAGIC
       /\ dshm.version = 3

----------------------------------------------------------------------------
(* Display region: the dirty rectangle as a concurrent reader sees it,      *)
(* checked under SpecDirtyRead                                              *)

\* the rectangles a gfx_update call of the console can carry
PublishedRects ==
    UNION { Rects(Surfaces[id]) : id \in SurfaceIds }

ReaderRect ==
    [x |-> denv.reader.x, y |-> denv.reader.y,
     w |-> denv.reader.w, h |-> denv.reader.h]

\* C23: a renderer that has acquire-loaded a changed frame_counter and then
\* read dirty_x, dirty_y, dirty_w and dirty_h, while gfx_update calls go on,
\* holds the four values of one single call
DirtyRectConsistent ==
    denv.reader.pc = "done" => ReaderRect \in PublishedRects

----------------------------------------------------------------------------
(* Audio region: its size and the frame size, checked under SpecAudio       *)

\* the frame size the header describes: channels times the sample width of
\* its format
HeaderFrameBytes(m) ==
    m.channels * (IF m.format = JUKE_AUDIO_FMT_F32LE THEN 4 ELSE 2)

\* C24: the audio region has size 64 + ring_frames * bytes_per_frame with
\* bytes_per_frame = channels * (4 if the header's format is F32LE, else 2),
\* and that is always the frame size juke_write uses
AudioRegionSizing ==
    aud.shmem /= 0 =>
       /\ aud.shmem_size = SizeofJukeAudioHeader
                             + JUKE_AUDIO_RING_FRAMES * HeaderFrameBytes(ashm)
       /\ hw.bytes_per_frame = HeaderFrameBytes(ashm)

----------------------------------------------------------------------------
(* Both channels: a connection the renderer has closed, checked under Spec  *)

\* s, e: a channel's state and environment before a step, s2, e2: after it
ClosedSocketStep(s, e, s2, e2) ==
    \* once connected, client_fd is kept and no new connection is made
    /\ s.client_fd >= 0 =>
          /\ s2.client_fd = s.client_fd
          /\ (~e.peer_open => ~e2.peer_open)
    \* nothing is delivered once the renderer has closed the connection
    /\ (s.client_fd >= 0 /\ ~e.peer_open) => e2.rcvd = e.rcvd
    \* fd_sent stays true while the region is the same
    /\ (s.fd_sent /\ s2.shmem_fd = s.shmem_fd) => s2.fd_sent
    \* a replacement fd is tried on the closed connection and not delivered
    /\ (s.client_fd >= 0 /\ ~e.peer_open /\ s2.shmem_fd /= s.shmem_fd) =>
          /\ ~s2.fd_sent
          /\ (s2.shmem_fd >= 0 => e2.sendmsgs = Min(e.sendmsgs + 1, MaxLog))

NoReconnectStep ==
    /\ ClosedSocketStep(dpy, denv, dpy', denv')
    /\ ClosedSocketStep(aud, aenv, aud', aenv')
    \* the audio region is never replaced
    /\ aud.shmem_fd >= 0 => aud'.shmem_fd = aud.shmem_fd

\* C25: once a channel has connected, no operation clears client_fd or
\* connects again; after the renderer closes the socket fd_sent stays true,
\* no fd is delivered any more, and the fd of a replaced display region is
\* sent only on the old socket
NoReconnect == [][NoReconnectStep]_vars

\* the renderer closed the connection after receiving fd 1 and listens
\* again; the region was replaced and its fd tried on the closed connection
NoReconnectWitness ==
    /\ dpy.client_fd >= 0 /\ ~denv.peer_open /\ denv.reachable
    /\ denv.rcvd = <<1>>
    /\ dpy.shmem_fd = 2 /\ ~dpy.fd_sent
    /\ denv.sendmsgs = 2

----------------------------------------------------------------------------
(* Display region: gfx_switch after a failed allocation, checked under      *)
(* SpecCallbacks                                                            *)

\* a gfx_switch with a surface that does not return at the failed allocation
\* (lines 600-605) goes on to the header initialisation
GfxSwitchRecoversStep ==
    \A new_surface \in SurfaceIds, ok \in BOOLEAN :
       ( /\ juke_shmem_gfx_switch(new_surface, ok)
         /\ ~(gfx_switch_grows(Needed(Surfaces[new_surface]), dpy.shmem_size)
                /\ ~ok) )
       => /\ ~dpy'.crashed
          /\ dpy'.shmem /= 0
          /\ dpy'.shmem_size >= Needed(Surfaces[new_surface])

\* C26: every gfx_switch with a non-null surface that reaches the header
\* initialisation has a mapped region of at least the needed size, also
\* after an earlier allocation failure
GfxSwitchRecovers == [][GfxSwitchRecoversStep]_vars

----------------------------------------------------------------------------
(* Audio region: the bytes juke_write copies to, checked under SpecAudio    *)

\* C27: every byte range juke_write copies to lies within the Samples area
\* [64, shmem_size) of the region, after any sequence of init_out calls
WritesInsideRegion ==
    (aud.shmem /= 0 /\ wr.pc = "copy") =>
       \A r \in CopyRanges(ashm.ring_frames, wr.write_idx, wr.frame_size,
                           wr.frames_to_write) :
          /\ SizeofJukeAudioHeader <= r[1]
          /\ r[2] <= aud.shmem_size

----------------------------------------------------------------------------
(* Both channels: the state of the handshake, checked under Spec            *)

\* s, e: a channel's state and environment
HandshakeState(s, e) ==
    s.fd_sent =>
       /\ s.client_fd >= 0
       /\ s.shmem_fd >= 0
       /\ e.rcvd /= << >>
       /\ e.rcvd[Len(e.rcvd)] = s.shmem_fd

\* a step in which connect succeeds finds fd_sent false, and leaves it true
\* only by sending the region's fd on the new connection
ConnectStep(s, e, s2, e2) ==
    (s.client_fd < 0 /\ s2.client_fd >= 0) =>
       /\ ~s.fd_sent
       /\ e2.peer_open
       /\ s2.fd_sent => (s2.shmem_fd >= 0 /\ e2.rcvd = <<s2.shmem_fd>>)
       /\ ~s2.fd_sent => e2.rcvd = << >>

\* C28: on both channels fd_sent implies client_fd >= 0 and shmem_fd >= 0 and
\* that the fd sent last on the connection is the current region's; a
\* successful connect starts with fd_sent false
HandshakeInvariant ==
    /\ [](HandshakeState(dpy, denv) /\ HandshakeState(aud, aenv))
    /\ [][ConnectStep(dpy, denv, dpy', denv')
            /\ ConnectStep(aud, aenv, aud', aenv')]_vars

\* the fd of a replaced display region has been sent on the connection that
\* carried the first one
HandshakeInvariantWitness ==
    /\ dpy.fd_sent /\ dpy.client_fd >= 0
    /\ dpy.shmem_fd = 2
    /\ denv.rcvd = <<1, 2>>

----------------------------------------------------------------------------
(* Display region: the cells cursor_define writes, checked under SpecCursor *)

CursorSlotStep ==
    \A con_cursor \in {0} \cup CursorIds :
       (juke_shmem_cursor_define(con_cursor) /\ dpy.shmem /= 0) =>
          /\ dshm'.ring = dshm.ring
          /\ dshm'.pixels = dshm.pixels
          /\ \A i \in DOMAIN dshm.cursor_pixels :
                LET row == i \div JUKE_CURSOR_MAX_SIZE
                    col == i % JUKE_CURSOR_MAX_SIZE
                IN IF row < dshm'.cursor_height /\ col < dshm'.cursor_width
                   THEN dshm'.cursor_pixels[i] =
                           CursorPixel(con_cursor,
                                       row * Cursors[con_cursor].width + col)
                   ELSE dshm'.cursor_pixels[i] = dshm.cursor_pixels[i]

\* C29: cursor_width and cursor_height never exceed the slot's side, and
\* cursor_define writes exactly the cells (row, col) with row < cursor_height
\* and col < cursor_width, from source offset row * (source width) + col,
\* leaving the other cells, the input ring and the pixel buffer unchanged
CursorSlotBounds ==
    /\ [](dshm.cursor_width <= JUKE_CURSOR_MAX_SIZE
            /\ dshm.cursor_height <= JUKE_CURSOR_MAX_SIZE)
    /\ [][CursorSlotStep]_vars

\* the wide cursor was defined, then the tall one over it: its column is
\* replaced, the cell next to it keeps the wide cursor's pixel, and the
\* queued event and the drawn pixels are still there
CursorSlotBoundsWitness ==
    /\ dpy.shmem /= 0
    /\ dshm.cursor_width = 1 /\ dshm.cursor_height = JUKE_CURSOR_MAX_SIZE
    /\ dshm.cursor_pixels[0] = CursorPixel(2, 0)
    /\ dshm.cursor_pixels[1] = CursorPixel(1, 1)
    /\ dshm.cursor_pixels[JUKE_CURSOR_MAX_SIZE] = CursorPixel(2, 1)
    /\ dshm.ring.write_idx /= dshm.ring.read_idx
    /\ dshm.frame_counter > 0

----------------------------------------------------------------------------
(* Refresh probe on Linux, checked under SpecProbe                          *)

\* the intervals the CRTCs with the modes ks yield
CrtcIntervals(ks) ==
    { 1000 \div refresh_hz(Modes[ks[n]]) : n \in
        { n \in DOMAIN ks :
            LET mode == Modes[ks[n]]
            IN /\ mode.mode_valid
               /\ mode.htotal > 0 /\ mode.vtotal > 0 /\ mode.clock > 0
               /\ refresh_hz(mode) > 0 } }

\* the smallest positive one of them, 0 when there is none
SmallestInterval(ks) ==
    LET pos == { t \in CrtcIntervals(ks) : t > 0 }
    IN IF pos = {} THEN 0
       ELSE CHOOSE t \in pos : \A u \in pos : t <= u

\* C30: the probe never divides by zero on a CRTC with a valid mode and
\* htotal, vtotal, clock > 0, and the interval it keeps is the smallest
\* positive interval over the CRTCs of the first card that yields one
ProbeTotal ==
    /\ ~dpy.crashed
    /\ cb.pc = "setup_refresh" => cb.x = SmallestInterval(cb.gen)

====
